---- MODULE Spec2Model ----
(***************************************************************************)
(* Route optimizer (MiuRuta): the reconciliation job that syncs the Bsale  *)
(* directory into the verified store (a Google Sheet), the in-memory       *)
(* directory cache with its background refresh, and route optimization.    *)
(*                                                                         *)
(* Threads are interleaved at the calls they make into their              *)
(* collaborators (a function of sheets.py, a request to the Bsale API or   *)
(* to the geocoder): one such call and the stores that follow it up to the *)
(* next call form one step.  Where the code checks a flag and sets it      *)
(* later, or publishes a snapshot field by field, every store is a step of *)
(* its own.  The optimize endpoint writes nothing that is shared: its      *)
(* request is followed stop by stop, and generate_split_routes and         *)
(* extract_coords_from_url are applied to arguments of their own.  The     *)
(* background jobs are also taken page by page, under fairness, over a     *)
(* directory that changes while they run.                                  *)
(***************************************************************************)
EXTENDS Integers, Sequences, FiniteSets, TLC

VARIABLES
    SYNC_STATE,     \* app.py SYNC_STATE: the polled reconciliation state
    sheet,          \* the verified store: the data rows of the Google Sheet
    pc,             \* position of every reconciliation run
    loc,            \* locals of every reconciliation run
    nreq,           \* POST /api/sheets/sync requests handled so far
    resp,           \* response of the last POST /api/sheets/sync
    nuser,          \* verify / fix requests handled so far
    ndetail,        \* update_client_details calls made so far
    route,          \* coordinates resolved by the last stop resolution
    remote,         \* the clients the Bsale directory lists
    ended,          \* the run that ended last: how it ended, what it appended
    CLIENTS_CACHE,  \* app.py CLIENTS_CACHE: the in-memory directory cache
    cache_file,     \* clients_cache.json: the snapshot file
    boot,           \* "main" until preload_clients has run, then "serving"
    th,             \* the threads that run fetch_bsale_clients_from_api
    refresh_resp,   \* response of the last POST /api/clients/refresh
    reader,         \* the GET /api/clients request in progress: what it has read
    listing,        \* the Bsale side of the cache: token configured, client count
    opt,            \* the POST /optimize request in progress and what it has built
    split,          \* a call of generate_split_routes: its arguments, its result
    ext,            \* a call of extract_coords_from_url: its argument, its outcome
    store_call      \* a call of verify_client, fix_client_address or add_clients

syncVars == <<SYNC_STATE, sheet, pc, loc, nreq, resp, nuser, ndetail, route, remote, ended>>
cacheVars == <<CLIENTS_CACHE, cache_file, boot, th, refresh_resp, reader, listing>>
routeVars == <<opt, split, ext, store_call>>
vars == <<syncVars, cacheVars, routeVars>>

(***************************************************************************)
(* Bounds of the model.                                                    *)
(***************************************************************************)
MaxTriggers == 2    \* sync requests handled
MaxUserOps == 1     \* verify / fix requests handled
MaxDetailOps == 1   \* update_client_details calls made

(***************************************************************************)
(* Python values.  None is the empty tuple where a pair is expected and    *)
(* the string "None" where a string is expected.                           *)
(***************************************************************************)
NoCoords == <<>>

Min(a, b) == IF a <= b THEN a ELSE b

\* str(x) of an integer
Str(x) == ToString(x)

\* f"{first} {last}".strip()
FullName(first, last) ==
    IF first = "" THEN last
    ELSE IF last = "" THEN first
    ELSE first \o " " \o last

(***************************************************************************)
(* Map links.  A link is the empty string of the code (present = FALSE) or *)
(* a URL that may carry a place marker (!3d..!4d..), a viewport centre     *)
(* (@lat,lng), a q=lat,lng parameter, coordinates in its path (/lat,lng)   *)
(* and an ll parameter, kept as the parts ll.split(",") gives; short says  *)
(* the URL is a goo.gl / maps.app link, whose other fields then describe   *)
(* the URL it redirects to.  q is the first q parameter of the query;      *)
(* q_rep is a q=lat,lng that follows a first q parameter spelling a name   *)
(* (?q=Lima&q=lat,lng).                                                    *)
(***************************************************************************)
\* a part of an ll parameter that float() rejects
NotNumeric == -1

NoLink ==
    [present |-> FALSE, place |-> NoCoords, at |-> NoCoords, q |-> NoCoords,
     q_rep |-> NoCoords, path |-> NoCoords, ll |-> <<>>, short |-> FALSE]

\* a link no pattern matches
OpaqueLink == [NoLink EXCEPT !.present = TRUE]

\* sync_clients.geocode_address: f"https://www.google.com/maps?q={lat},{lng}"
GeoLink(lat, lng) == [OpaqueLink EXCEPT !.q = <<lat, lng>>]

PlaceLink(lat, lng, vlat, vlng) ==
    [OpaqueLink EXCEPT !.place = <<lat, lng>>, !.at = <<vlat, vlng>>]

\* https://www.google.com/maps?ll=a,b
LlLink(a, b) == [OpaqueLink EXCEPT !.ll = <<a, b>>]

\* https://www.google.com/maps?q=Lima&q=lat,lng
RepeatedQLink(lat, lng) == [OpaqueLink EXCEPT !.q_rep = <<lat, lng>>]

\* https://maps.app.goo.gl/... redirecting to url
ShortLink(url) == [url EXCEPT !.short = TRUE]

\* sheets.extract_coords_from_maps_link(url), expand = False: place marker,
\* then @, then the first [?&]q=lat,lng of the text, whichever q parameter
\* it is; a short link carries none of them until it is expanded
extract_coords_from_maps_link(url) ==
    IF ~url.present \/ url.short THEN NoCoords
    ELSE IF url.place # NoCoords THEN url.place
    ELSE IF url.at # NoCoords THEN url.at
    ELSE IF url.q # NoCoords THEN url.q
    ELSE IF url.q_rep # NoCoords THEN url.q_rep
    ELSE NoCoords

\* str(lat) if lat else "": None and 0 both give the empty cell
CoordCell(c, k) == IF c = NoCoords \/ c[k] = 0 THEN "" ELSE Str(c[k])

(***************************************************************************)
(* The verified store.  A row holds the cells of SHEET_COLUMNS; maps_link  *)
(* holds a link, every other cell a string.  last_updated is "t0" for a    *)
(* row as first seen and "now" once the code has stamped it again.         *)
(***************************************************************************)
SHEET_COLUMNS ==
    << "bsale_id", "name", "company", "phone", "address", "clean_address",
       "district", "verified_district", "city", "maps_link", "lat", "lng",
       "verified", "last_updated" >>

\* column_map = {col: idx + 1 for idx, col in enumerate(SHEET_COLUMNS)}
column_map(field) == CHOOSE i \in 1..Len(SHEET_COLUMNS) : SHEET_COLUMNS[i] = field

\* the column a write to f"{chr(64 + col_num)}{row_num}" lands in
ColumnAt(col_num) == SHEET_COLUMNS[col_num]

\* allowed_fields of update_client_details, field_values of batch_update_client_details
DetailFields == {"name", "company", "phone", "address", "district", "city"}

\* the row add_clients builds for a client that carries its maps_link
NewRow(client) ==
    LET coords == extract_coords_from_maps_link(client.maps_link)
    IN  [ bsale_id |-> Str(client.bsale_id),
          name |-> FullName(client.firstName, client.lastName),
          company |-> client.company,
          phone |-> client.phone,
          address |-> client.address,
          clean_address |-> "",
          district |-> client.district,
          verified_district |-> "",
          city |-> client.city,
          maps_link |-> client.maps_link,
          lat |-> CoordCell(coords, 1),
          lng |-> CoordCell(coords, 2),
          verified |-> "",
          last_updated |-> "now" ]

\* worksheet.col_values(1)[1:], as {str(v) for v in values if v}
get_existing_bsale_ids(rows) ==
    {rows[k].bsale_id : k \in {j \in DOMAIN rows : rows[j].bsale_id # ""}}

\* the rows add_clients appends: every client whose id is not in the sheet
\* when the call starts (the ids of the batch itself are not added to the set)
RECURSIVE RowsToAdd(_, _, _)
RowsToAdd(existing_ids, clients, i) ==
    IF i > Len(clients) THEN <<>>
    ELSE IF Str(clients[i].bsale_id) \in existing_ids
         THEN RowsToAdd(existing_ids, clients, i + 1)
         ELSE <<NewRow(clients[i])>> \o RowsToAdd(existing_ids, clients, i + 1)

\* an add_clients that rewrites the row of a client it already holds
add_clients_upsert(rows, clients) ==
    [k \in DOMAIN rows |->
        IF \E i \in DOMAIN clients : Str(clients[i].bsale_id) = rows[k].bsale_id
        THEN NewRow(clients[CHOOSE i \in DOMAIN clients :
                               Str(clients[i].bsale_id) = rows[k].bsale_id])
        ELSE rows[k]]
    \o RowsToAdd(get_existing_bsale_ids(rows), clients, 1)

\* sheets.add_clients: the sheet after the call
add_clients(rows, clients) ==
    rows \o RowsToAdd(get_existing_bsale_ids(rows), clients, 1)

\* field_values of batch_update_client_details
FieldValues(client) ==
    [ name |-> FullName(client.firstName, client.lastName),
      company |-> client.company,
      phone |-> client.phone,
      address |-> client.address,
      district |-> client.district,
      city |-> client.city ]

\* existing_map[bsale_id]["row"]: the last row that carries the id (0: none)
ExistingRow(snap, id) ==
    LET ks == {k \in DOMAIN snap : snap[k].bsale_id = id /\ id # ""}
    IN  IF ks = {} THEN 0 ELSE CHOOSE k \in ks : \A j \in ks : j <= k

\* the fields of a client that differ from the stored row
ChangedFields(snap, client) ==
    LET k == ExistingRow(snap, Str(client.bsale_id))
    IN  IF k = 0 THEN {}
        ELSE {f \in DetailFields : FieldValues(client)[f] # snap[k][f]}

\* one row after the cells of cells_to_update that name it are written
WriteCells(row, fields, values) ==
    [f \in DOMAIN row |->
        IF \E g \in fields : ColumnAt(column_map(g)) = f
        THEN values[CHOOSE g \in fields : ColumnAt(column_map(g)) = f]
        ELSE row[f]]

\* sheets.batch_update_client_details: the sheet after worksheet.batch_update
RECURSIVE batch_update_client_details(_, _, _, _)
batch_update_client_details(cur, snap, clients, i) ==
    IF i > Len(clients) THEN cur
    ELSE LET k == ExistingRow(snap, Str(clients[i].bsale_id))
             changed == ChangedFields(snap, clients[i])
         IN  IF k = 0 \/ changed = {}
             THEN batch_update_client_details(cur, snap, clients, i + 1)
             ELSE batch_update_client_details(
                      [cur EXCEPT ![k] = WriteCells(cur[k], changed, FieldValues(clients[i]))],
                      snap, clients, i + 1)

\* the number batch_update_client_details returns: clients with a changed field
UpdatedCount(snap, clients) ==
    Cardinality({i \in DOMAIN clients : ChangedFields(snap, clients[i]) # {}})

\* find_client_row: worksheet.find, the first row that carries the id (0: none)
find_client_row(rows, id) ==
    LET ks == {k \in DOMAIN rows : rows[k].bsale_id = Str(id)}
    IN  IF ks = {} THEN 0 ELSE CHOOSE k \in ks : \A j \in ks : k <= j

\* an update_client_details without the allowed_fields test
update_client_details_unfiltered(rows, id, details) ==
    LET k == find_client_row(rows, id)
    IN  IF k = 0 THEN rows
        ELSE [rows EXCEPT ![k] = WriteCells(rows[k], DOMAIN details, details)]

\* sheets.update_client_details: only allowed_fields are written
update_client_details(rows, id, details) ==
    LET k == find_client_row(rows, id)
    IN  IF k = 0 THEN rows
        ELSE [rows EXCEPT ![k] =
                 WriteCells(rows[k], DOMAIN details \cap DetailFields, details)]

\* sheets.update_client: lat / lng follow a maps_link in the updates, every
\* named column is written, last_updated is stamped
update_client(rows, id, updates) ==
    LET k == find_client_row(rows, id)
        coords == IF "maps_link" \in DOMAIN updates
                  THEN extract_coords_from_maps_link(updates.maps_link)
                  ELSE NoCoords
        stamped == [f \in (DOMAIN updates \cup {"last_updated"}
                             \cup (IF "maps_link" \in DOMAIN updates
                                   THEN {"lat", "lng"} ELSE {})) |->
                       IF f = "last_updated" THEN "now"
                       ELSE IF f = "lat" /\ "maps_link" \in DOMAIN updates
                            THEN CoordCell(coords, 1)
                       ELSE IF f = "lng" /\ "maps_link" \in DOMAIN updates
                            THEN CoordCell(coords, 2)
                       ELSE updates[f]]
    IN  IF k = 0 THEN rows
        ELSE [rows EXCEPT ![k] =
                 WriteCells(rows[k], DOMAIN stamped \cap {SHEET_COLUMNS[i] : i \in DOMAIN SHEET_COLUMNS}, stamped)]

\* sheets.verify_client: the updates it hands to update_client
VerifyUpdates(clean_address) ==
    IF clean_address = "None" THEN [verified |-> "yes"]
    ELSE [verified |-> "yes", clean_address |-> clean_address]

\* sheets.fix_client_address: the updates it hands to update_client
FixUpdates(expanded_url, clean_address) ==
    LET coords == extract_coords_from_maps_link(expanded_url)
        base == IF coords # NoCoords
                THEN [maps_link |-> expanded_url, verified |-> "yes",
                      lat |-> Str(coords[1]), lng |-> Str(coords[2])]
                ELSE [maps_link |-> expanded_url, verified |-> "yes"]
    IN  IF clean_address = "None" THEN base
        ELSE [f \in DOMAIN base \cup {"clean_address"} |->
                 IF f = "clean_address" THEN clean_address ELSE base[f]]

\* sheets.expand_short_url: the URL a HEAD request that follows redirects
\* ends at; the URL itself if it is no short link or the request fails
expand_short_url(url, head_ok) ==
    IF url.short /\ head_ok THEN [url EXCEPT !.short = FALSE] ELSE url

\* sheets.verify_client: the sheet after the call
verify_client(rows, id, clean_address) ==
    update_client(rows, id, VerifyUpdates(clean_address))

\* sheets.fix_client_address (app.py imports it as fix_address): the link
\* is expanded, then stored with what can be extracted from it
fix_address(rows, id, new_maps_link, head_ok, clean_address) ==
    update_client(rows, id, FixUpdates(expand_short_url(new_maps_link, head_ok), clean_address))

\* no call of the store's functions under way
NoStoreCall ==
    [op |-> "none", id |-> 0, link |-> NoLink, head_ok |-> TRUE,
     clean_address |-> "None", called |-> FALSE, success |-> FALSE]

(***************************************************************************)
(* The remote directory (Bsale) and the geocoder, as the runs see them.    *)
(***************************************************************************)
\* a client as fetch_all_bsale_clients builds it from one item of a page
Client(id, phone, address) ==
    [ bsale_id |-> id, firstName |-> "Ana", lastName |-> "Paz", company |-> "",
      phone |-> phone, address |-> address, city |-> "Lima", district |-> "Surco" ]

\* the directories the remote side may hold: nothing new and nothing changed,
\* a changed client and a new one, a new client without an address
SyncDirectories ==
    { <<Client(1, "911", "Av Lima 1")>>,
      <<Client(1, "922", "Av Lima 1"), Client(2, "933", "Jr Ica 5")>> }

StoreDirectories ==
    SyncDirectories \cup { <<Client(1, "922", "Av Lima 1"), Client(2, "933", "")>> }

\* what fetch_all_bsale_clients may return: [] (no token, a failed count or
\* first page) or the clients of the directory's one page
FetchResults(directory) == { <<>>, directory }

\* what sync_clients.geocode_address may return for a non-empty address
GeocodeResults == {NoLink, GeoLink(5, 7)}

\* what app.geocode_address may return
GeocodeCoords == {NoCoords, <<5, 7>>}

\* client["maps_link"] = "" until the geocoding loop sets it (client.get default)
WithLink(client, link) ==
    [f \in DOMAIN client \cup {"maps_link"} |->
        IF f = "maps_link" THEN link ELSE client[f]]

RECURSIVE SelectClients(_, _, _, _)
SelectClients(clients, ids, keepKnown, i) ==
    IF i > Len(clients) THEN <<>>
    ELSE IF (Str(clients[i].bsale_id) \in ids) = keepKnown
         THEN <<WithLink(clients[i], NoLink)>> \o SelectClients(clients, ids, keepKnown, i + 1)
         ELSE SelectClients(clients, ids, keepKnown, i + 1)

\* new_clients = [c for c in bsale_clients if str(c.get("bsale_id")) not in existing_ids]
NewClients(clients, ids) == SelectClients(clients, ids, FALSE, 1)

\* existing_clients = [c for c in bsale_clients if str(c.get("bsale_id")) in existing_ids]
ExistingClients(clients, ids) == SelectClients(clients, ids, TRUE, 1)

(***************************************************************************)
(* Reconciliation runs.  Run 0 is the command line (sync_clients.py), runs *)
(* 1..MaxTriggers are the worker threads of POST /api/sheets/sync: request *)
(* number n, when accepted, starts thread n.                               *)
(***************************************************************************)
Cli == 0
Workers == 1..MaxTriggers
Runs == {Cli} \cup Workers
IsCli(p) == p = Cli

\* app.py imports (lines 7-18) bind no name `time`; sync_clients.py imports it
TimeImportedByApp == FALSE
TimeBound(p) == IF IsCli(p) THEN TRUE ELSE TimeImportedByApp

\* the module-level SYNC_STATE
InitialSyncState ==
    [ syncing |-> FALSE, stage |-> "", progress |-> 0, total |-> 0, message |-> "",
      new_clients |-> 0, updated_clients |-> 0, error |-> "None" ]

\* the dictionary run_sync_with_progress binds SYNC_STATE to when it starts
FreshSyncState ==
    [ syncing |-> TRUE, stage |-> "fetching_bsale", progress |-> 0, total |-> 0,
      message |-> "Conectando con Bsale...", new_clients |-> 0,
      updated_clients |-> 0, error |-> "None" ]

\* a handler that forgets to release the flag
HandlerKeepsFlag(s, e) == [s EXCEPT !.stage = "error", !.error = e]

\* the except block of run_sync_with_progress
Handler(s, e) == [s EXCEPT !.stage = "error", !.error = e, !.syncing = FALSE]

\* the block taken when fetch_all_bsale_clients returns nothing
NoDataBlock(s) ==
    [s EXCEPT !.stage = "error", !.error = "No se pudieron obtener clientes de Bsale",
              !.syncing = FALSE]

\* the last three stores of the try block
DoneBlock(s) ==
    [s EXCEPT !.stage = "done", !.message = "Sincronizacion completa", !.syncing = FALSE]

\* an endpoint that starts a run whatever the flag says
ResponseWithoutCheck(s) == "started"

\* what POST /api/sheets/sync answers in state s
TriggerResponse(s) == IF s.syncing THEN "already_syncing" ELSE "started"

\* a run that appends the new clients before it updates the known ones
AddFirstOrder == <<"geocode", "add", "update">>

\* the order in which a run takes its steps after the partition
PhaseOrder == <<"update", "geocode", "add">>

PhaseIndex(phase) ==
    IF \E j \in DOMAIN PhaseOrder : PhaseOrder[j] = phase
    THEN CHOOSE j \in DOMAIN PhaseOrder : PhaseOrder[j] = phase
    ELSE 0

\* the guards of the steps: `if existing_clients [and not new_only]`, `if new_clients`
HasWork(l, phase) ==
    IF phase = "update" THEN l.existing_clients # <<>> /\ ~l.new_only
    ELSE l.new_clients # <<>>

\* the step a run takes after `phase` ("partition": after the partition)
NextPhase(l, phase) ==
    LET later == {j \in DOMAIN PhaseOrder : j > PhaseIndex(phase) /\ HasWork(l, PhaseOrder[j])}
    IN  IF later = {} THEN "finish"
        ELSE PhaseOrder[CHOOSE j \in later : \A k \in later : j <= k]

\* the stores a worker thread makes on entering a step
EnterPhase(s, l, phase) ==
    IF phase = "update"
    THEN [s EXCEPT !.stage = "updating",
                   !.message = "Verificando cambios en " \o Str(Len(l.existing_clients)) \o " clientes..."]
    ELSE IF phase = "geocode"
    THEN [s EXCEPT !.stage = "geocoding",
                   !.message = "Geocodificando " \o Str(Len(l.new_clients)) \o " clientes nuevos..."]
    ELSE IF phase = "add"
    THEN [s EXCEPT !.stage = "adding", !.message = "Agregando clientes nuevos..."]
    ELSE DoneBlock(s)

\* the locals of a run; seen is the stage the accepted request found, update
\* tells whether the run's update step is still to come ("pending") or over
\* ("done"), appended holds the ids of the rows the run has appended, failed
\* tells whether a collaborator (Bsale, the sheet, the geocoder) has failed it
NoLocals ==
    [ bsale |-> <<>>, existing_ids |-> {}, new_clients |-> <<>>, existing_clients |-> <<>>,
      i |-> 0, new_only |-> FALSE, seen |-> "", update |-> "none", appended |-> {},
      failed |-> FALSE, offset |-> 0, rewritten |-> 0 ]

NoRun ==
    [ run |-> -1, outcome |-> "", exc |-> "None", new_ids |-> {}, appended |-> {},
      update |-> "none", failed |-> FALSE, offset |-> 0, rewritten |-> 0 ]

\* what is kept of run p when it ends: "done", "nodata" (nothing fetched),
\* "nosheet" or "exception" with its message, the ids that were new to it,
\* the ids it appended and the number of its records whose row it rewrote
Ended(p, l, outcome, exc) ==
    [ run |-> p, outcome |-> outcome, exc |-> exc,
      new_ids |-> {Str(l.new_clients[k].bsale_id) : k \in DOMAIN l.new_clients},
      appended |-> l.appended, update |-> l.update, failed |-> l.failed,
      offset |-> l.offset, rewritten |-> l.rewritten ]

\* moving run p on to the step after `phase`, with locals l and with s the
\* reconciliation state as the step has left it so far
Advance(p, l, phase, s) ==
    LET next == NextPhase(l, phase)
        l2 == [l EXCEPT !.i = 0,
                        !.update = IF phase # "partition" THEN l.update
                                   ELSE IF HasWork(l, "update") THEN "pending"
                                   ELSE "none"]
    IN  /\ pc' = [pc EXCEPT ![p] = IF next = "finish" THEN "ended" ELSE next]
        /\ loc' = [loc EXCEPT ![p] = IF next = "finish" THEN NoLocals ELSE l2]
        /\ ended' = IF next = "finish" THEN Ended(p, l2, "done", "None") ELSE ended
        /\ SYNC_STATE' = IF IsCli(p) THEN SYNC_STATE ELSE EnterPhase(s, l2, next)

\* an exception leaves the try block of run p: the worker's handler runs, the
\* command line dies with it
Raise(p, e, s) ==
    /\ pc' = [pc EXCEPT ![p] = "ended"]
    /\ loc' = [loc EXCEPT ![p] = NoLocals]
    /\ ended' = Ended(p, [loc[p] EXCEPT !.failed = TRUE], "exception", e)
    /\ SYNC_STATE' = IF IsCli(p) THEN SYNC_STATE ELSE Handler(s, e)

(***************************************************************************)
(* POST /api/sheets/sync                                                   *)
(***************************************************************************)
sync_bsale_to_sheets ==
    /\ nreq < MaxTriggers
    /\ nreq' = nreq + 1
    /\ resp' = TriggerResponse(SYNC_STATE)
    /\ IF TriggerResponse(SYNC_STATE) = "started"
       THEN /\ pc' = [pc EXCEPT ![nreq + 1] = "spawned"]
            /\ loc' = [loc EXCEPT ![nreq + 1].seen = SYNC_STATE.stage]
       ELSE UNCHANGED <<pc, loc>>
    /\ UNCHANGED <<SYNC_STATE, sheet, nuser, ndetail, route, remote, ended>>
    /\ UNCHANGED <<cacheVars, routeVars>>

\* the worker thread starts: SYNC_STATE is bound to a fresh dictionary
WInit(w) ==
    /\ pc[w] = "spawned"
    /\ SYNC_STATE' = FreshSyncState
    /\ pc' = [pc EXCEPT ![w] = "fetch"]
    /\ UNCHANGED <<sheet, loc, nreq, resp, nuser, ndetail, route, remote, ended>>
    /\ UNCHANGED <<cacheVars, routeVars>>

\* python sync_clients.py [--new-only]: the worksheet is reached and the ids
\* are read (an empty set when the read fails), or the script gives up
CliStart ==
    /\ pc[Cli] = "none"
    /\ \/ \E new_only \in BOOLEAN, idsRead \in BOOLEAN :
            /\ pc' = [pc EXCEPT ![Cli] = "fetch"]
            /\ loc' = [loc EXCEPT ![Cli].new_only = new_only,
                                  ![Cli].failed = ~idsRead,
                                  ![Cli].existing_ids =
                                      IF idsRead THEN get_existing_bsale_ids(sheet) ELSE {}]
            /\ ended' = ended
       \/ /\ pc' = [pc EXCEPT ![Cli] = "ended"]
          /\ loc' = [loc EXCEPT ![Cli] = NoLocals]
          /\ ended' = Ended(Cli, [loc[Cli] EXCEPT !.failed = TRUE], "nosheet", "None")
    /\ UNCHANGED <<SYNC_STATE, sheet, nreq, resp, nuser, ndetail, route, remote>>
    /\ UNCHANGED <<cacheVars, routeVars>>

\* fetch_all_bsale_clients() has returned r to run p, whose locals are l:
\* what follows it up to the next call
FetchReturn(p, l, r) ==
    LET s1 == [SYNC_STATE EXCEPT !.message = "Obteniendo clientes de Bsale..."]
    IN  IF r = <<>>
        THEN /\ pc' = [pc EXCEPT ![p] = "ended"]
             /\ loc' = [loc EXCEPT ![p] = NoLocals]
             /\ ended' = Ended(p, [l EXCEPT !.failed = TRUE], "nodata", "None")
             /\ SYNC_STATE' = IF IsCli(p) THEN SYNC_STATE ELSE NoDataBlock(s1)
        ELSE IF IsCli(p)
        THEN Advance(p, [l EXCEPT
                           !.bsale = r,
                           !.new_clients = NewClients(r, l.existing_ids),
                           !.existing_clients = ExistingClients(r, l.existing_ids)],
                     "partition", SYNC_STATE)
        ELSE /\ pc' = [pc EXCEPT ![p] = "compare"]
             /\ loc' = [loc EXCEPT ![p] = [l EXCEPT !.bsale = r]]
             /\ ended' = ended
             /\ SYNC_STATE' = [s1 EXCEPT !.total = Len(r), !.stage = "comparing",
                                         !.message = "Comparando con base de datos..."]

\* fetch_all_bsale_clients() as one step, and what follows it up to the next
\* call
Fetch(p) ==
    /\ pc[p] = "fetch"
    /\ \/ Raise(p, "fetch: malformed response",
                 [SYNC_STATE EXCEPT !.message = "Obteniendo clientes de Bsale..."])
       \/ \E r \in FetchResults(remote) : FetchReturn(p, loc[p], r)
    /\ UNCHANGED <<sheet, nreq, resp, nuser, ndetail, route, remote>>
    /\ UNCHANGED <<cacheVars, routeVars>>

\* get_existing_bsale_ids() in the worker thread, and the partition
Compare(w) ==
    /\ pc[w] = "compare"
    /\ \E idsRead \in BOOLEAN :
         LET ids == IF idsRead THEN get_existing_bsale_ids(sheet) ELSE {}
             l == [loc[w] EXCEPT !.existing_ids = ids,
                                 !.failed = ~idsRead,
                                 !.new_clients = NewClients(loc[w].bsale, ids),
                                 !.existing_clients = ExistingClients(loc[w].bsale, ids)]
         IN  Advance(w, l, "partition",
                     [SYNC_STATE EXCEPT !.new_clients = Len(l.new_clients)])
    /\ UNCHANGED <<sheet, nreq, resp, nuser, ndetail, route, remote>>
    /\ UNCHANGED <<cacheVars, routeVars>>

\* the number of records of a batch that carried, for a cell that differs
\* between two sheets, a value other than the one stored before
RewrittenRecords(before, after, clients) ==
    Cardinality({i \in DOMAIN clients :
                    \E k \in DOMAIN before : \E f \in DetailFields :
                        /\ before[k].bsale_id = Str(clients[i].bsale_id)
                        /\ after[k][f] # before[k][f]
                        /\ FieldValues(clients[i])[f] # before[k][f]})

\* batch_update_client_details(existing_clients): the batch write, or 0 when
\* the sheet cannot be reached or the call fails
Update(p) ==
    /\ pc[p] = "update"
    /\ \E ok \in BOOLEAN :
         LET updated == IF ok THEN UpdatedCount(sheet, loc[p].existing_clients) ELSE 0
             after == IF ok
                      THEN batch_update_client_details(sheet, sheet, loc[p].existing_clients, 1)
                      ELSE sheet
         IN  /\ sheet' = after
             /\ Advance(p, [loc[p] EXCEPT !.update = "done",
                                          !.rewritten = RewrittenRecords(sheet, after, loc[p].existing_clients),
                                          !.failed = loc[p].failed \/ ~ok], "update",
                        [SYNC_STATE EXCEPT !.updated_clients = updated])
    /\ UNCHANGED <<nreq, resp, nuser, ndetail, route, remote>>
    /\ UNCHANGED <<cacheVars, routeVars>>

\* one turn of the geocoding loop: the geocoder call and the progress
\* stores; the command line goes on through its time.sleep, a worker thread
\* is then at the time.sleep(0.05) of line 3609
Geocode(p) ==
    /\ pc[p] = "geocode"
    /\ LET i == loc[p].i + 1
           client == loc[p].new_clients[i]
       IN  \/ /\ client.address # ""
              /\ Raise(p, "geocode: malformed response", SYNC_STATE)
           \/ \E link \in (IF client.address # "" THEN GeocodeResults ELSE {NoLink}) :
                LET l == [loc[p] EXCEPT !.new_clients[i] = WithLink(client, link), !.i = i]
                    s1 == [SYNC_STATE EXCEPT
                             !.progress = i,
                             !.message = "Geocodificando " \o Str(i) \o "/"
                                           \o Str(Len(l.new_clients)) \o "..."]
                IN  IF ~IsCli(p)
                    THEN /\ pc' = [pc EXCEPT ![p] = "sleep"]
                         /\ loc' = [loc EXCEPT ![p] = l]
                         /\ ended' = ended
                         /\ SYNC_STATE' = s1
                    ELSE IF i < Len(l.new_clients)
                    THEN /\ pc' = pc
                         /\ loc' = [loc EXCEPT ![p] = l]
                         /\ ended' = ended
                         /\ SYNC_STATE' = SYNC_STATE
                    ELSE Advance(p, l, "geocode", SYNC_STATE)
    /\ UNCHANGED <<sheet, nreq, resp, nuser, ndetail, route, remote>>
    /\ UNCHANGED <<cacheVars, routeVars>>

\* time.sleep(0.05) in a worker thread: NameError where the module binds no
\* name `time`, else the next turn of the loop or the step after it
Sleep(w) ==
    /\ pc[w] = "sleep"
    /\ IF ~TimeBound(w)
       THEN /\ pc' = [pc EXCEPT ![w] = "ended"]
            /\ loc' = [loc EXCEPT ![w] = NoLocals]
            /\ ended' = Ended(w, loc[w], "exception", "name 'time' is not defined")
            /\ SYNC_STATE' = Handler(SYNC_STATE, "name 'time' is not defined")
       ELSE IF loc[w].i < Len(loc[w].new_clients)
       THEN /\ pc' = [pc EXCEPT ![w] = "geocode"]
            /\ UNCHANGED <<loc, ended, SYNC_STATE>>
       ELSE Advance(w, loc[w], "geocode", SYNC_STATE)
    /\ UNCHANGED <<sheet, nreq, resp, nuser, ndetail, route, remote>>
    /\ UNCHANGED <<cacheVars, routeVars>>

\* add_clients(new_clients): the rows are appended, or nothing is when the
\* sheet cannot be reached or the call fails
Add(p) ==
    /\ pc[p] = "add"
    /\ \E ok \in BOOLEAN :
         LET after == IF ok THEN add_clients(sheet, loc[p].new_clients) ELSE sheet
             ids == {after[k].bsale_id : k \in (DOMAIN after) \ (DOMAIN sheet)}
         IN  /\ sheet' = after
             /\ Advance(p, [loc[p] EXCEPT !.appended = ids,
                                          !.failed = loc[p].failed \/ ~ok],
                        "add", SYNC_STATE)
    /\ UNCHANGED <<nreq, resp, nuser, ndetail, route, remote>>
    /\ UNCHANGED <<cacheVars, routeVars>>

(***************************************************************************)
(* The verification workflow and the other callers of the store.           *)
(***************************************************************************)
UserIds == {1, 2}
CleanAddresses == {"None", "Jr Cusco 2"}
FixLinks == {PlaceLink(3, 4, 8, 9), OpaqueLink}

\* POST /api/sheets/clients/<id>/verify
verify_client_address ==
    /\ nuser < MaxUserOps
    /\ nuser' = nuser + 1
    /\ \E id \in UserIds, clean \in CleanAddresses, ok \in BOOLEAN :
         sheet' = IF ok THEN update_client(sheet, id, VerifyUpdates(clean)) ELSE sheet
    /\ UNCHANGED <<SYNC_STATE, pc, loc, nreq, resp, ndetail, route, remote, ended>>
    /\ UNCHANGED <<cacheVars, routeVars>>

\* POST /api/sheets/clients/<id>/fix, with a link that passes the URL test
fix_client_address ==
    /\ nuser < MaxUserOps
    /\ nuser' = nuser + 1
    /\ \E id \in UserIds, link \in FixLinks, clean \in CleanAddresses, ok \in BOOLEAN :
         sheet' = IF ok THEN update_client(sheet, id, FixUpdates(link, clean)) ELSE sheet
    /\ UNCHANGED <<SYNC_STATE, pc, loc, nreq, resp, ndetail, route, remote, ended>>
    /\ UNCHANGED <<cacheVars, routeVars>>

\* what a caller may hand to update_client_details
DetailInputs ==
    { [phone |-> "944", address |-> "Av Peru 9"],
      [name |-> "Ana P", verified |-> "no", maps_link |-> OpaqueLink,
       lat |-> "1", lng |-> "1", clean_address |-> "x"] }

\* a call of sheets.update_client_details
UpdateClientDetails ==
    /\ ndetail < MaxDetailOps
    /\ ndetail' = ndetail + 1
    /\ \E id \in UserIds, details \in DetailInputs, ok \in BOOLEAN :
         sheet' = IF ok THEN update_client_details(sheet, id, details) ELSE sheet
    /\ UNCHANGED <<SYNC_STATE, pc, loc, nreq, resp, nuser, route, remote, ended>>
    /\ UNCHANGED <<cacheVars, routeVars>>

\* sheets_clients = {str(c.get('bsale_id')): c ...}: the last row of an id
SheetsClient(rows, id) == ExistingRow(rows, Str(id))

\* what a call of a function gives: the value returned, or an exception
Returned(value) == [raised |-> FALSE, value |-> value]
Raised == [raised |-> TRUE, value |-> NoCoords]

\* app.extract_coords_from_url(url); head_ok: the HEAD request that expands
\* a short link succeeds.  The place marker, then @, then q= (parse_qs
\* gives the first q parameter only), then the path, then ll, whose two
\* parts go to float() outside any try
ExtractUrl(url, head_ok) ==
    IF url.short /\ ~head_ok THEN Returned(NoCoords)
    ELSE IF url.place # NoCoords THEN Returned(url.place)
    ELSE IF url.at # NoCoords THEN Returned(url.at)
    ELSE IF url.q # NoCoords THEN Returned(url.q)
    ELSE IF url.path # NoCoords THEN Returned(url.path)
    ELSE IF Len(url.ll) = 2
    THEN IF url.ll[1] = NotNumeric \/ url.ll[2] = NotNumeric
         THEN Raised
         ELSE Returned(<<url.ll[1], url.ll[2]>>)
    ELSE Returned(NoCoords)

\* app.extract_coords_from_url on a link that is not short and whose ll
\* parameter, if any, spells numbers
extract_coords_from_url(url) == ExtractUrl(url, TRUE).value

\* no call of extract_coords_from_url under way
NoExtract == [called |-> FALSE, url |-> NoLink, head_ok |-> TRUE, outcome |-> Returned(NoCoords)]

\* the URLs a caller may hand over: every combination of the shapes, with
\* an ll parameter of two numbers, of one part, of two parts that are no
\* numbers, of a number and a part that is none
ExtractUrls ==
    { url \in [present : {TRUE}, place : {NoCoords, <<1, 2>>}, at : {NoCoords, <<3, 4>>},
               q : {NoCoords, <<5, 6>>}, q_rep : {NoCoords}, path : {NoCoords, <<7, 8>>},
               ll : {<<>>, <<9, 9>>, <<9>>, <<NotNumeric, NotNumeric>>, <<9, NotNumeric>>},
               short : BOOLEAN] : TRUE } \cup {NoLink}

\* a caller calls extract_coords_from_url and keeps what comes of it
CallExtract ==
    /\ ~ext.called
    /\ ext' = [ext EXCEPT !.called = TRUE, !.outcome = ExtractUrl(ext.url, ext.head_ok)]
    /\ UNCHANGED <<opt, split, store_call>>
    /\ UNCHANGED <<syncVars, cacheVars>>

\* the numbers a lat / lng cell of the model may spell
CellNumbers == 0..9

\* get_all_clients: float(cell) of a lat / lng cell, None for an empty cell
\* or one that spells no number
ParseCell(cell) ==
    IF \E n \in CellNumbers : Str(n) = cell
    THEN <<CHOOSE n \in CellNumbers : Str(n) = cell>>
    ELSE <<>>

\* optimize(): the stored lat / lng, taken when both are truthy
CellCoords(row) ==
    LET lat == ParseCell(row.lat)
        lng == ParseCell(row.lng)
    IN  IF lat # <<>> /\ lng # <<>> /\ lat[1] # 0 /\ lng[1] # 0
        THEN <<lat[1], lng[1]>>
        ELSE NoCoords

(***************************************************************************)
(* Stop resolution in optimize().  What the collaborators of one stop      *)
(* would answer is its environment: copy, the client the directory cache   *)
(* holds under the id; geo_sheet and geo_cache, what geocode_address gives *)
(* for the address of the sheet and for the address of the copy; head_ok,  *)
(* whether a short link expands.                                           *)
(***************************************************************************)
\* bsale_map.get(client_id): None, or a dict of fetch_bsale_clients_from_api
NoCopy ==
    [present |-> FALSE, firstName |-> "", lastName |-> "", address |-> "",
     district |-> "", city |-> ""]

CacheCopy(firstName, lastName, address, district) ==
    [present |-> TRUE, firstName |-> firstName, lastName |-> lastName,
     address |-> address, district |-> district, city |-> "Lima"]

\* x or y of two strings
Or(x, y) == IF x # "" THEN x ELSE y

\* lines 3679-3692: the metadata of a stop before any step has run
NoInfo ==
    [client_name |-> "", address |-> "", phone |-> "", clean_address |-> "",
     district |-> ""]

SheetInfo(sheets_client) ==
    [client_name |-> sheets_client.name,
     address |-> sheets_client.address,
     phone |-> sheets_client.phone,
     clean_address |-> sheets_client.clean_address,
     district |-> Or(sheets_client.verified_district, sheets_client.district)]

\* lines 3718-3721: the metadata the cache fallback stores; a dict of the
\* cache has no phone key
CacheInfo(info, bsale_client) ==
    [info EXCEPT !.client_name = FullName(bsale_client.firstName, bsale_client.lastName),
                 !.address = bsale_client.address,
                 !.phone = "",
                 !.district = bsale_client.district]

\* an order that reads the stored lat / lng before the map link
LatLngFirst == <<"lat_lng", "maps_link", "address", "bsale_cache">>

\* the order of the steps in lines 3694-3726
ResolutionSteps == <<"maps_link", "lat_lng", "address", "bsale_cache">>

\* one step on the resolution r of a stop whose sheet record is rows[k]
\* (k = 0: the sheet has none); a step is skipped once coords is set
ResolutionStep(step, r, rows, k, env) ==
    IF r.coords # NoCoords \/ r.raised THEN r
    ELSE IF step = "maps_link"
    THEN IF k # 0 /\ rows[k].maps_link.present
         THEN LET e == ExtractUrl(rows[k].maps_link, env.head_ok)
              IN  [r EXCEPT !.coords = e.value, !.raised = e.raised,
                            !.tried = Append(@, step)]
         ELSE r
    ELSE IF step = "lat_lng"
    THEN IF k # 0 /\ CellCoords(rows[k]) # NoCoords
         THEN [r EXCEPT !.coords = CellCoords(rows[k]), !.tried = Append(@, step)]
         ELSE r
    ELSE IF step = "address"
    THEN IF k # 0 /\ rows[k].address # ""
         THEN [r EXCEPT !.coords = env.geo_sheet, !.tried = Append(@, step),
                        !.calls = Append(@, rows[k].address)]
         ELSE r
    ELSE IF env.copy.present
         THEN [r EXCEPT !.coords = env.geo_cache, !.tried = Append(@, step),
                        !.calls = Append(@, env.copy.address),
                        !.info = CacheInfo(@, env.copy)]
         ELSE r

RECURSIVE RunSteps(_, _, _, _, _)
RunSteps(steps, r, rows, k, env) ==
    IF steps = <<>> THEN r
    ELSE RunSteps(Tail(steps), ResolutionStep(Head(steps), r, rows, k, env), rows, k, env)

\* lines 3677-3726 for one client id: coords, the metadata, the steps that
\* ran, the addresses handed to geocode_address, whether a step raised
ResolveClient(rows, id, env) ==
    LET k == SheetsClient(rows, id)
    IN  RunSteps(ResolutionSteps,
                 [coords |-> NoCoords,
                  info |-> IF k # 0 THEN SheetInfo(rows[k]) ELSE NoInfo,
                  tried |-> <<>>, calls |-> <<>>, raised |-> FALSE],
                 rows, k, env)

\* the coordinates the resolution of one client id gives when the geocoder
\* answers geocoded for the sheet's address and the cache fallback yields
\* cached
ResolveStop(rows, id, geocoded, cached) ==
    ResolveClient(rows, id,
                  [copy |-> IF cached = NoCoords THEN NoCopy
                            ELSE CacheCopy("Ana", "Paz", "Av Lima 1", "Lince"),
                   geo_sheet |-> geocoded, geo_cache |-> cached,
                   head_ok |-> TRUE]).coords

\* POST /optimize for one client id
optimize ==
    /\ \E id \in UserIds, geocoded \in GeocodeCoords, cached \in GeocodeCoords :
         route' = ResolveStop(sheet, id, geocoded, cached)
    /\ UNCHANGED <<SYNC_STATE, sheet, pc, loc, nreq, resp, nuser, ndetail, remote, ended>>
    /\ UNCHANGED <<cacheVars, routeVars>>

(***************************************************************************)
(* Route splitting.  A point is a pair <<lat, lng>>; a segment is the      *)
(* dict generate_split_routes appends.                                     *)
(***************************************************************************)
MaxStops == 17      \* ordered waypoints handed to generate_split_routes

\* max_waypoints_per_route = 8
max_waypoints_per_route == 8

\* f"{lat},{lng}"
PointText(point) == Str(point[1]) \o "," \o Str(point[2])

RECURSIVE JoinPoints(_)
\* "/".join(path_parts)
JoinPoints(points) ==
    IF points = <<>> THEN ""
    ELSE IF Len(points) = 1 THEN PointText(points[1])
    ELSE PointText(points[1]) \o "/" \o JoinPoints(Tail(points))

generate_google_maps_url(origin, destination, ordered_waypoints) ==
    "https://www.google.com/maps/dir/"
        \o JoinPoints(<<origin>> \o ordered_waypoints \o <<destination>>)

\* s[:n] and s[n:] for n >= 0
Take(s, n) == SubSeq(s, 1, Min(n, Len(s)))
Drop(s, n) == SubSeq(s, Min(n, Len(s)) + 1, Len(s))

\* a test that lets a list of max + 2 waypoints through as one route
FitsTenPoints(total_waypoints, max) == total_waypoints <= max + 2

\* a test no list passes
NeverFits(total_waypoints, max) == FALSE

\* if total_waypoints <= max_waypoints_per_route
FitsOneRoute(total_waypoints, max) == total_waypoints <= max

\* a count of the full chunks only
TotalPartsRoundedDown(total_waypoints, max) == total_waypoints \div max

\* (total_waypoints + max_waypoints_per_route - 1) // max_waypoints_per_route
TotalParts(total_waypoints, max) == (total_waypoints + max - 1) \div max

\* chunk_end: the last waypoint of a chunk that is not the last one
ChunkEnd(chunk, remaining_waypoints, destination) ==
    IF remaining_waypoints # <<>> THEN chunk[Len(chunk)] ELSE destination

\* intermediates that keep the last waypoint of every chunk
WholeChunk(chunk, remaining_waypoints) == chunk

\* chunk_waypoints: chunk[:-1] for a chunk that is not the last one
ChunkWaypoints(chunk, remaining_waypoints) ==
    IF remaining_waypoints # <<>> THEN SubSeq(chunk, 1, Len(chunk) - 1) ELSE chunk

\* a loop that never moves the start
KeepStart(current_start, chunk_end) == current_start

\* current_start = chunk_end
NextStart(current_start, chunk_end) == chunk_end

\* the dict of one segment
RoutePart(start, end, waypoints, part_number, total_parts) ==
    [url |-> generate_google_maps_url(start, end, waypoints),
     start |-> start, end |-> end, waypoints |-> waypoints,
     part_number |-> part_number, total_parts |-> total_parts]

RECURSIVE SplitLoop(_, _, _, _, _, _)
\* while remaining_waypoints: ...
SplitLoop(remaining, current_start, part_number, total_parts, destination, max) ==
    IF remaining = <<>> THEN <<>>
    ELSE LET chunk == Take(remaining, max)
             remaining_waypoints == Drop(remaining, max)
             chunk_end == ChunkEnd(chunk, remaining_waypoints, destination)
             chunk_waypoints == ChunkWaypoints(chunk, remaining_waypoints)
         IN  <<RoutePart(current_start, chunk_end, chunk_waypoints, part_number, total_parts)>>
             \o SplitLoop(remaining_waypoints, NextStart(current_start, chunk_end),
                          part_number + 1, total_parts, destination, max)

generate_split_routes(origin, destination, ordered_waypoints, max) ==
    IF FitsOneRoute(Len(ordered_waypoints), max)
    THEN <<RoutePart(origin, destination, ordered_waypoints, 1, 1)>>
    ELSE SplitLoop(ordered_waypoints, origin, 1,
                   TotalParts(Len(ordered_waypoints), max), destination, max)

\* no call of generate_split_routes under way
NoSplit ==
    [called |-> FALSE, origin |-> NoCoords, destination |-> NoCoords,
     ordered_waypoints |-> <<>>, max |-> max_waypoints_per_route, routes |-> <<>>]

\* the arguments of a call: the stops all differ, or two stops alternate
SplitOrigin == <<90, 1>>
SplitDestination == <<91, 1>>

WaypointLists ==
    { [i \in 1..n |-> <<i, i>>] : n \in 0..MaxStops }
        \cup { [i \in 1..n |-> <<1 + (i % 2), 5>>] : n \in 2..MaxStops }

\* a caller calls generate_split_routes and keeps what it returns
CallSplit ==
    /\ ~split.called
    /\ split' = [split EXCEPT
                   !.called = TRUE,
                   !.routes = generate_split_routes(split.origin, split.destination,
                                                    split.ordered_waypoints, split.max)]
    /\ UNCHANGED <<opt, ext, store_call>>
    /\ UNCHANGED <<syncVars, cacheVars>>

(***************************************************************************)
(* POST /optimize.  The request shares nothing it writes; it is followed   *)
(* stop by stop: the origin, the destination and the read of the sheet,    *)
(* then one client id or one manual link at a time, then the optimizer and *)
(* the response.  log keeps, for every stop handled, its environment and   *)
(* what the resolution made of it.                                         *)
(***************************************************************************)
MaxClientIds == 2   \* client ids in a request
MaxManualStops == 1 \* manual links in a request

SeqsUpTo(S, n) == UNION { [1..m -> S] : m \in 0..n }

\* what a request may carry
StartLinks ==
    { GeoLink(1, 2), NoLink, LlLink(NotNumeric, NotNumeric), ShortLink(PlaceLink(1, 2, 6, 6)) }
EndLinks == { LlLink(9, 9), OpaqueLink, LlLink(NotNumeric, NotNumeric) }
ManualLinks == { PlaceLink(2, 2, 6, 6), OpaqueLink, LlLink(NotNumeric, NotNumeric) }
ClientIdLists == SeqsUpTo(UserIds, MaxClientIds)
StopUrlLists == SeqsUpTo(ManualLinks, MaxManualStops)

\* what the directory cache may hold under an id
CacheCopies == { NoCopy, CacheCopy("Ana", "Paz", "Jr Ica 5", "Lince") }

\* what geocode_address may give for the sheet's address, for the copy's
SheetGeocodes == { NoCoords, <<4, 4>> }
CacheGeocodes == { NoCoords, <<6, 8>> }

\* the environments of a stop with sheet record rows[k] that differ in
\* something its resolution can consult
Environments(rows, k) ==
    { env \in [copy : CacheCopies, geo_sheet : SheetGeocodes,
               geo_cache : CacheGeocodes, head_ok : BOOLEAN] :
        /\ (~env.copy.present => env.geo_cache = NoCoords)
        /\ (k = 0 \/ rows[k].address = "" => env.geo_sheet = NoCoords)
        /\ (k = 0 \/ ~rows[k].maps_link.short => env.head_ok) }

NoResponse ==
    [status |-> "none", error |-> "", stops |-> <<>>, google_maps_url |-> "None",
     route_parts |-> <<>>, total_route_parts |-> 0]

\* jsonify({"error": error})
ErrorResponse(error) == [NoResponse EXCEPT !.status = "error", !.error = error]

RECURSIVE JoinNumbers(_)
\* ",".join of the parts of an ll parameter ("x" for a part that is no number)
JoinNumbers(parts) ==
    IF parts = <<>> THEN ""
    ELSE (IF Head(parts) = NotNumeric THEN "x" ELSE Str(Head(parts)))
         \o (IF Len(parts) > 1 THEN "," ELSE "") \o JoinNumbers(Tail(parts))

\* the text of a link, as the request carries it and an f-string repeats it
UrlText(url) ==
    IF ~url.present THEN ""
    ELSE IF url.short THEN "https://maps.app.goo.gl/x"
    ELSE "https://www.google.com/maps"
         \o (IF url.path # NoCoords THEN "/place/" \o JoinNumbers(url.path) ELSE "")
         \o (IF url.at # NoCoords THEN "/@" \o JoinNumbers(url.at) \o ",17z" ELSE "")
         \o (IF url.place # NoCoords
             THEN "/data=!3d" \o Str(url.place[1]) \o "!4d" \o Str(url.place[2]) ELSE "")
         \o (IF url.q # NoCoords THEN "?q=" \o JoinNumbers(url.q) ELSE "")
         \o (IF url.q_rep # NoCoords THEN "?q=Lima&q=" \o JoinNumbers(url.q_rep) ELSE "")
         \o (IF url.ll # <<>>
             THEN (IF url.q # NoCoords \/ url.q_rep # NoCoords THEN "&" ELSE "?")
                  \o "ll=" \o JoinNumbers(url.ll)
             ELSE "")

\* lines 3653 and 3657: the error of an origin, a destination without coordinates
OriginError(start_url) == "No se pudo extraer coordenadas del inicio: " \o UrlText(start_url)
DestinationError(end_url) == "No se pudo extraer coordenadas del fin: " \o UrlText(end_url)

\* a no-stops error that reads like the no-route error
NoStopsAsNoRoute == "No se pudo calcular la ruta"

\* line 3756
NoStopsError == "No se encontraron paradas válidas"

\* line 3765
NoRouteError == "No se pudo calcular la ruta"

\* optimize_route: {"error": "API key not configured"}, {"error": str(e)}
OptimizerError(answer) ==
    IF answer = "no_key" THEN "API key not configured"
    ELSE "503 Server Error: Service Unavailable for url: "
         \o "https://routes.googleapis.com/directions/v2:computeRoutes"

NoRequest ==
    [pc |-> "idle", start |-> NoLink, end |-> NoLink, clientIds |-> <<>>,
     stops |-> <<>>, origin |-> NoCoords, destination |-> NoCoords,
     rows |-> <<>>, i |-> 0, j |-> 0, log |-> <<>>, waypoints |-> <<>>,
     waypoint_info |-> <<>>, optimizer |-> "none", response |-> NoResponse]

\* where the request goes once i client ids and j manual links are handled
Stage(o, i, j) ==
    IF i < Len(o.clientIds) THEN "clients"
    ELSE IF j < Len(o.stops) THEN "manual"
    ELSE "route"

\* lines 3643-3669: the request is read, the origin and the destination are
\* extracted, the sheet is read (sheets_up: get_all_clients reaches it)
OptimizeStart ==
    /\ opt.pc = "idle"
    /\ \E start \in StartLinks, end \in EndLinks, clientIds \in ClientIdLists,
          stops \in StopUrlLists, head_ok \in BOOLEAN, sheets_up \in BOOLEAN :
         LET origin == ExtractUrl(start, head_ok)
             destination == ExtractUrl(end, head_ok)
             o == [opt EXCEPT !.start = start, !.end = end,
                              !.clientIds = clientIds, !.stops = stops]
         IN  /\ (~start.short => head_ok)
             /\ opt' =
                  IF origin.raised THEN [o EXCEPT !.pc = "raised"]
                  ELSE IF origin.value = NoCoords
                  THEN [o EXCEPT !.pc = "done",
                                 !.response = ErrorResponse(OriginError(start))]
                  ELSE IF destination.raised
                  THEN [o EXCEPT !.pc = "raised", !.origin = origin.value]
                  ELSE IF destination.value = NoCoords
                  THEN [o EXCEPT !.pc = "done", !.origin = origin.value,
                                 !.response = ErrorResponse(DestinationError(end))]
                  ELSE [o EXCEPT !.pc = Stage(o, 0, 0),
                                 !.origin = origin.value,
                                 !.destination = destination.value,
                                 !.rows = IF sheets_up THEN sheet ELSE <<>>]
    /\ UNCHANGED <<split, ext, store_call>>
    /\ UNCHANGED <<syncVars, cacheVars>>

\* the waypoint_info entry of a stop
WaypointInfo(coords, info, is_client) ==
    [coords |-> coords, client_name |-> info.client_name, address |-> info.address,
     phone |-> info.phone, clean_address |-> info.clean_address,
     district |-> info.district, is_client |-> is_client]

\* lines 3745-3752: the metadata of a manual stop
ManualInfo ==
    [client_name |-> "None", address |-> "None", phone |-> "None",
     clean_address |-> "None", district |-> "None"]

\* lines 3677-3738: the next client id is resolved
OptimizeClient ==
    /\ opt.pc = "clients"
    /\ LET id == opt.clientIds[opt.i + 1]
           k == SheetsClient(opt.rows, id)
       IN  \E env \in Environments(opt.rows, k) :
             LET r == ResolveClient(opt.rows, id, env)
                 entry == [kind |-> "client", id |-> id, url |-> NoLink, env |-> env,
                           coords |-> r.coords, info |-> r.info, tried |-> r.tried,
                           calls |-> r.calls, raised |-> r.raised]
             IN  opt' =
                   IF r.raised
                   THEN [opt EXCEPT !.pc = "raised", !.log = Append(@, entry)]
                   ELSE [opt EXCEPT
                           !.pc = Stage(opt, opt.i + 1, opt.j),
                           !.i = @ + 1,
                           !.log = Append(@, entry),
                           !.waypoints = IF r.coords # NoCoords THEN Append(@, r.coords) ELSE @,
                           !.waypoint_info =
                               IF r.coords # NoCoords
                               THEN Append(@, WaypointInfo(r.coords, r.info, TRUE))
                               ELSE @]
    /\ UNCHANGED <<split, ext, store_call>>
    /\ UNCHANGED <<syncVars, cacheVars>>

\* lines 3741-3753: the next manual link is resolved
OptimizeManual ==
    /\ opt.pc = "manual"
    /\ LET url == opt.stops[opt.j + 1]
       IN  \E head_ok \in BOOLEAN :
             LET e == ExtractUrl(url, head_ok)
                 entry == [kind |-> "manual", id |-> 0, url |-> url,
                           env |-> [copy |-> NoCopy, geo_sheet |-> NoCoords,
                                    geo_cache |-> NoCoords, head_ok |-> head_ok],
                           coords |-> e.value, info |-> ManualInfo,
                           tried |-> <<"url">>, calls |-> <<>>, raised |-> e.raised]
             IN  /\ (~url.short => head_ok)
                 /\ opt' =
                      IF e.raised
                      THEN [opt EXCEPT !.pc = "raised", !.log = Append(@, entry)]
                      ELSE [opt EXCEPT
                              !.pc = Stage(opt, opt.i, opt.j + 1),
                              !.j = @ + 1,
                              !.log = Append(@, entry),
                              !.waypoints = IF e.value # NoCoords THEN Append(@, e.value) ELSE @,
                              !.waypoint_info =
                                  IF e.value # NoCoords
                                  THEN Append(@, WaypointInfo(e.value, ManualInfo, FALSE))
                                  ELSE @]
    /\ UNCHANGED <<split, ext, store_call>>
    /\ UNCHANGED <<syncVars, cacheVars>>

\* what optimize_route may return: an error for a missing key or a failed
\* request, a body without routes, a body whose routes list is empty, a
\* route without optimizedIntermediateWaypointIndex, a route that visits
\* the waypoints in reverse, a route that visits them rotated by one
OptimizerAnswers ==
    {"no_key", "request_failed", "no_routes", "empty_routes", "no_order", "reversed", "rotated"}

\* optimized_order: the indices, from 1, of the waypoints in visiting order
\* (list(range(len(waypoints))) when the route carries none)
OptimizedOrder(answer, n) ==
    IF answer = "reversed" THEN [p \in 1..n |-> n + 1 - p]
    ELSE IF answer = "rotated" THEN [p \in 1..n |-> (p % n) + 1]
    ELSE [p \in 1..n |-> p]

\* an ordering that leaves a list in resolution order
Unordered(list, optimized_order) == list

\* [list[i] for i in optimized_order]
Reordered(list, optimized_order) ==
    [p \in DOMAIN optimized_order |-> list[optimized_order[p]]]

\* lines 3784-3808: the entry of stops_data for a waypoint
LegInfo(coords, info) ==
    [coords |-> coords, client_name |-> info.client_name, phone |-> info.phone,
     clean_address |-> info.clean_address, district |-> info.district,
     is_client |-> info.is_client]

\* lines 3755-3839: the optimizer is called and the response is built;
\* result["routes"][0] raises IndexError on an empty routes list
OptimizeRoute ==
    /\ opt.pc = "route"
    /\ IF opt.waypoints = <<>>
       THEN opt' = [opt EXCEPT !.pc = "done", !.response = ErrorResponse(NoStopsError)]
       ELSE \E answer \in OptimizerAnswers :
              LET n == Len(opt.waypoints)
                  optimized_order == OptimizedOrder(answer, n)
                  ordered_waypoints == Reordered(opt.waypoints, optimized_order)
                  ordered_info == Reordered(opt.waypoint_info, optimized_order)
                  route_parts == generate_split_routes(opt.origin, opt.destination,
                                                       ordered_waypoints,
                                                       max_waypoints_per_route)
              IN  opt' =
                    IF answer = "empty_routes"
                    THEN [opt EXCEPT !.pc = "raised", !.optimizer = answer]
                    ELSE
                    [opt EXCEPT
                       !.pc = "done",
                       !.optimizer = answer,
                       !.response =
                          IF answer \in {"no_key", "request_failed"}
                          THEN ErrorResponse(OptimizerError(answer))
                          ELSE IF answer = "no_routes"
                          THEN ErrorResponse(NoRouteError)
                          ELSE [status |-> "ok", error |-> "",
                                stops |-> [p \in 1..n |->
                                             LegInfo(ordered_waypoints[p], ordered_info[p])],
                                google_maps_url |-> IF Len(route_parts) = 1
                                                    THEN route_parts[1].url ELSE "None",
                                route_parts |-> IF Len(route_parts) > 1
                                                THEN route_parts ELSE <<>>,
                                total_route_parts |-> Len(route_parts)]]
    /\ UNCHANGED <<split, ext, store_call>>
    /\ UNCHANGED <<syncVars, cacheVars>>

(***************************************************************************)
(* The directory cache.  A collection of clients is known by who built it  *)
(* (src: 0 the empty list the module starts with, -1 the list read from    *)
(* the snapshot file, t >= 1 the list refresh thread t built) and by its   *)
(* length n.  A timestamp is known the same way: 0 is None, -1 the one the *)
(* snapshot file carries, t the datetime.now() of refresh thread t.        *)
(***************************************************************************)
MaxRefreshes == 2   \* threads that run fetch_bsale_clients_from_api

RefreshThreads == 1..MaxRefreshes

\* limit = 50
limit == 50

\* the numbers of clients the Bsale directory may list
DirectoryCounts == {0, 60, 120}

EmptyList == [src |-> 0, n |-> 0]

\* the snapshot file: absent, or written by an earlier process.  content
\* tells what reading it gives: "object" a JSON object, "truncated" text
\* that json.load rejects, "garbled" bytes that are not UTF-8 (as a write
\* cut inside a character of a name leaves: the file is written with
\* ensure_ascii=False)
NoFile == [exists |-> FALSE, content |-> "object", clients |-> EmptyList, last_updated |-> 0]
OldFile == [exists |-> TRUE, content |-> "object", clients |-> [src |-> -1, n |-> 2],
            last_updated |-> -1]
TruncatedFile == [OldFile EXCEPT !.content = "truncated"]
GarbledFile == [OldFile EXCEPT !.content = "garbled"]

\* the module-level CLIENTS_CACHE
InitialCache ==
    [ clients |-> EmptyList, loaded |-> FALSE, loading |-> FALSE,
      loading_progress |-> 0, total_count |-> 0, last_updated |-> 0 ]

NoThread ==
    [ pc |-> "none", offset |-> 0, clients |-> EmptyList, total_count |-> 0,
      ret |-> EmptyList, outcome |-> "" ]

\* threading.Thread(target=fetch_bsale_clients_from_api).start(): the first
\* thread not yet used
NextThread == CHOOSE t \in RefreshThreads :
                  th[t].pc = "none" /\ \A u \in RefreshThreads : u < t => th[u].pc # "none"

ThreadLeft == \E t \in RefreshThreads : th[t].pc = "none"

Spawn == [th EXCEPT ![NextThread].pc = "check"]

\* load_clients_from_file: the cache after the three stores
LoadedFromFile(c, file) ==
    [c EXCEPT !.clients = file.clients, !.loaded = TRUE, !.last_updated = file.last_updated]

\* load_clients_from_file when the cache is c: the cache after it, what it
\* returns, and whether an exception leaves it.  The handler catches
\* json.JSONDecodeError and IOError; the UnicodeDecodeError of f.read() on
\* bytes that are not UTF-8 is neither
load_clients_from_file(c, file) ==
    IF ~file.exists THEN [cache |-> c, ret |-> EmptyList, raised |-> FALSE]
    ELSE IF file.content = "garbled" THEN [cache |-> c, ret |-> EmptyList, raised |-> TRUE]
    ELSE IF file.content = "truncated" THEN [cache |-> c, ret |-> EmptyList, raised |-> FALSE]
    ELSE [cache |-> LoadedFromFile(c, file), ret |-> file.clients, raised |-> FALSE]

\* preload_clients at startup: nothing when the sheet answers with clients;
\* otherwise the snapshot file is loaded and a refresh thread is started.
\* An exception of the loader leaves preload_clients and the main module:
\* the process ends before app.run
preload_clients ==
    /\ boot = "main"
    /\ \/ /\ boot' = "serving"
          /\ UNCHANGED <<CLIENTS_CACHE, th>>
       \/ LET cached_clients == load_clients_from_file(CLIENTS_CACHE, cache_file)
          IN  IF cached_clients.raised
              THEN /\ boot' = "crashed"
                   /\ CLIENTS_CACHE' = cached_clients.cache
                   /\ th' = th
              ELSE /\ boot' = "serving"
                   /\ CLIENTS_CACHE' = IF cached_clients.ret.n > 0
                                       THEN [cached_clients.cache EXCEPT !.loaded = TRUE]
                                       ELSE cached_clients.cache
                   /\ th' = Spawn
    /\ UNCHANGED <<cache_file, refresh_resp, reader, listing>>
    /\ UNCHANGED <<syncVars, routeVars>>

\* what POST /api/clients/refresh answers when the cache is c
RefreshResponse(c) == IF c.loading THEN "already_loading" ELSE "started"

\* POST /api/clients/refresh
refresh_clients ==
    /\ boot = "serving"
    /\ refresh_resp' = RefreshResponse(CLIENTS_CACHE)
    /\ IF RefreshResponse(CLIENTS_CACHE) = "started"
       THEN ThreadLeft /\ th' = Spawn
       ELSE th' = th
    /\ UNCHANGED <<CLIENTS_CACHE, cache_file, boot, reader, listing>>
    /\ UNCHANGED <<syncVars, routeVars>>

\* fetch_bsale_clients_from_api, lines 382-388: the two early returns
FCheck(t) ==
    /\ th[t].pc = "check"
    /\ th' = [th EXCEPT ![t] =
                IF CLIENTS_CACHE.loading
                THEN [@ EXCEPT !.pc = "done", !.ret = CLIENTS_CACHE.clients, !.outcome = "skipped"]
                ELSE IF ~listing.token
                THEN [@ EXCEPT !.pc = "done", !.ret = EmptyList, !.outcome = "notoken"]
                ELSE [@ EXCEPT !.pc = "flag"]]
    /\ UNCHANGED <<CLIENTS_CACHE, cache_file, boot, refresh_resp, reader, listing>>
    /\ UNCHANGED <<syncVars, routeVars>>

\* lines 390-395: the flag is set, the locals are initialised
FSetFlag(t) ==
    /\ th[t].pc = "flag"
    /\ CLIENTS_CACHE' = [CLIENTS_CACHE EXCEPT !.loading = TRUE, !.loading_progress = 0]
    /\ th' = [th EXCEPT ![t] = [@ EXCEPT !.pc = "page", !.offset = 0,
                                         !.clients = [src |-> t, n |-> 0]]]
    /\ UNCHANGED <<cache_file, boot, refresh_resp, reader, listing>>
    /\ UNCHANGED <<syncVars, routeVars>>

\* a page handler that publishes the clients fetched so far
PageStoresPublishing(c, t, offset, items, total_count) ==
    [c EXCEPT !.total_count = total_count,
              !.loading_progress = Min(offset + items, total_count),
              !.clients = [src |-> t, n |-> offset + items]]

\* lines 417-418: the stores thread t makes for the page fetched at offset
PageStores(c, t, offset, items, total_count) ==
    [c EXCEPT !.total_count = total_count,
              !.loading_progress = Min(offset + items, total_count)]

\* len(items) of the page at offset when the directory lists count clients
PageItems(count, offset) == IF offset < count THEN Min(limit, count - offset) ELSE 0

\* lines 404-440: one page is fetched and taken in
FPage(t) ==
    /\ th[t].pc = "page"
    /\ LET total_count == listing.count
           items == PageItems(listing.count, th[t].offset)
           offset == th[t].offset + limit
           last == items = 0 \/ offset >= total_count
       IN  /\ CLIENTS_CACHE' = PageStores(CLIENTS_CACHE, t, th[t].offset, items, total_count)
           /\ th' = [th EXCEPT ![t] =
                       [@ EXCEPT !.total_count = total_count,
                                 !.clients.n = @ + items,
                                 !.offset = IF items = 0 THEN @ ELSE offset,
                                 !.pc = IF last THEN "commit_clients" ELSE "page"]]
    /\ UNCHANGED <<cache_file, boot, refresh_resp, reader, listing>>
    /\ UNCHANGED <<syncVars, routeVars>>

\* lines 454-460: the page request raises requests.RequestException
FFail(t) ==
    /\ th[t].pc = "page"
    /\ th' = [th EXCEPT ![t] = [@ EXCEPT !.pc = "done", !.ret = CLIENTS_CACHE.clients,
                                         !.outcome = "failed"]]
    /\ CLIENTS_CACHE' = [CLIENTS_CACHE EXCEPT !.loading = FALSE]
    /\ UNCHANGED <<cache_file, boot, refresh_resp, reader, listing>>
    /\ UNCHANGED <<syncVars, routeVars>>

\* the store thread t makes at position at of lines 445-448
CommitStore(c, t, at) ==
    IF at = "commit_clients" THEN [c EXCEPT !.clients = th[t].clients]
    ELSE IF at = "commit_loaded" THEN [c EXCEPT !.loaded = TRUE]
    ELSE IF at = "commit_progress" THEN [c EXCEPT !.loading_progress = th[t].total_count]
    ELSE [c EXCEPT !.last_updated = t]

CommitOrder == <<"commit_clients", "commit_loaded", "commit_progress", "commit_updated", "save">>

\* lines 445-448, one store at a time
FCommit(t) ==
    /\ \E j \in 1..4 :
         /\ th[t].pc = CommitOrder[j]
         /\ CLIENTS_CACHE' = CommitStore(CLIENTS_CACHE, t, CommitOrder[j])
         /\ th' = [th EXCEPT ![t].pc = CommitOrder[j + 1]]
    /\ UNCHANGED <<cache_file, boot, refresh_resp, reader, listing>>
    /\ UNCHANGED <<syncVars, routeVars>>

\* lines 451-460: save_clients_to_file (an IOError is swallowed), the return
\* and the finally block
FSave(t) ==
    /\ th[t].pc = "save"
    /\ \E written \in BOOLEAN :
         cache_file' = IF written
                       THEN [exists |-> TRUE, content |-> "object", clients |-> th[t].clients,
                             last_updated |-> t]
                       ELSE cache_file
    /\ th' = [th EXCEPT ![t] = [@ EXCEPT !.pc = "done", !.ret = th[t].clients,
                                         !.outcome = "ok"]]
    /\ CLIENTS_CACHE' = [CLIENTS_CACHE EXCEPT !.loading = FALSE]
    /\ UNCHANGED <<boot, refresh_resp, reader, listing>>
    /\ UNCHANGED <<syncVars, routeVars>>

\* GET /api/clients, line 3426: the collection is read
GetClientsStart ==
    /\ boot = "serving"
    /\ reader.pc = "idle"
    /\ reader' = [pc |-> "reading", clients |-> CLIENTS_CACHE.clients]
    /\ UNCHANGED <<CLIENTS_CACHE, cache_file, boot, th, refresh_resp, listing>>
    /\ UNCHANGED <<syncVars, routeVars>>

\* lines 3427-3435: the body a request that has read clients answers with
\* when the cache is c
GetClientsResponse(clients, c) ==
    [ clients |-> clients, loading |-> c.loading, loaded |-> c.loaded,
      count |-> clients.n, progress |-> c.loading_progress, total |-> c.total_count,
      last_updated |-> c.last_updated ]

\* GET /api/clients, lines 3427-3435: the other fields are read, the body is sent
GetClientsRespond ==
    /\ reader.pc = "reading"
    /\ reader' = [pc |-> "idle", clients |-> EmptyList]
    /\ UNCHANGED <<CLIENTS_CACHE, cache_file, boot, th, refresh_resp, listing>>
    /\ UNCHANGED <<syncVars, routeVars>>

\* the cache side of the state when the process starts
CacheStart(files, boots, tokens, counts) ==
    /\ CLIENTS_CACHE = InitialCache
    /\ cache_file \in files
    /\ boot \in boots
    /\ th = [t \in RefreshThreads |-> NoThread]
    /\ refresh_resp = ""
    /\ reader = [pc |-> "idle", clients |-> EmptyList]
    /\ listing \in [token : tokens, count : counts]

(***************************************************************************)
(* The reconciliation system.                                              *)
(***************************************************************************)
\* rows the sheet may hold when the server starts: an unverified row as
\* add_clients wrote it, or the row after a fix
StoredRow ==
    [NewRow(WithLink(Client(1, "911", "Av Lima 1"), GeoLink(5, 7))) EXCEPT !.last_updated = "t0"]

VerifiedRow ==
    [StoredRow EXCEPT !.maps_link = PlaceLink(3, 4, 8, 9), !.lat = "3", !.lng = "4",
                      !.verified = "yes", !.clean_address = "Jr Cusco 2"]

\* the state when the server has started and nothing has been asked of it
Start(sheets, directories) ==
    /\ SYNC_STATE = InitialSyncState
    /\ sheet \in sheets
    /\ remote \in directories
    /\ pc = [p \in Runs |-> "none"]
    /\ loc = [p \in Runs |-> NoLocals]
    /\ nreq = 0
    /\ resp = ""
    /\ nuser = 0
    /\ ndetail = 0
    /\ route = NoCoords
    /\ ended = NoRun
    /\ opt = NoRequest

\* the reconciliation runs: the sync endpoint, its worker threads and the
\* command line, which the operator runs while no run of the server is in
\* flight (the server's own runs interleave freely)
SyncInit ==
    /\ Start({ <<StoredRow>> }, SyncDirectories)
    /\ CacheStart({NoFile}, {"serving"}, {TRUE}, {0})
    /\ split = NoSplit
    /\ ext = NoExtract
    /\ store_call = NoStoreCall

ServerQuiet == \A w \in Workers : pc[w] \in {"none", "ended"}
CliQuiet == pc[Cli] \in {"none", "ended"}

SyncNext ==
    \/ CliQuiet /\ sync_bsale_to_sheets
    \/ \E w \in Workers : WInit(w)
    \/ ServerQuiet /\ CliStart
    \/ \E p \in Runs : Fetch(p)
    \/ \E w \in Workers : Compare(w)
    \/ \E p \in Runs : Update(p)
    \/ \E p \in Runs : Geocode(p)
    \/ \E w \in Workers : Sleep(w)
    \/ \E p \in Runs : Add(p)

SpecSync == SyncInit /\ [][SyncNext]_vars

\* a worker thread that is executing run_sync_with_progress
Running(w) == pc[w] \in {"fetch", "compare", "update", "geocode", "sleep", "add"}

\* C1: at most one reconciliation run of the server is executing at any
\* time; a request that arrives before the first worker has set syncing
\* starts no second run.
C1_AtMostOneRunActive ==
    Cardinality({w \in Workers : Running(w)}) <= 1

\* the step in which worker w leaves its try block by an exception
EndsByException(w) ==
    /\ pc[w] # "ended"
    /\ pc'[w] = "ended"
    /\ ended'.run = w
    /\ ended'.outcome = "exception"

C8_TriggerWhileFetchingRejected ==
    [][ (nreq' # nreq /\ SYNC_STATE.syncing /\ SYNC_STATE.stage = "fetching_bsale")
            => /\ resp' = "already_syncing"
               /\ SYNC_STATE' = SYNC_STATE
               /\ pc' = pc ]_vars

\* the second request was refused while the first run was fetching
C8_Witness ==
    /\ nreq = 2
    /\ resp = "already_syncing"
    /\ pc[1] = "fetch"
    /\ pc[2] = "none"
    /\ SYNC_STATE = [FreshSyncState EXCEPT !.syncing = TRUE]

\* C9: a run started through the endpoint that no collaborator fails ends
\* with stage "done" and has appended every client that was new to it.
C9_EndpointRunAppendsNewClients ==
    (ended.run \in Workers /\ ~ended.failed)
        => /\ ended.outcome = "done"
           /\ ended.appended = ended.new_ids

\* C10: within one run the update of the known clients is over before the
\* run geocodes and appends the new ones.
C10_UpdateBeforeAdd ==
    /\ \A p \in Runs : pc[p] \in {"geocode", "sleep", "add"} => loc[p].update # "pending"
    /\ ended.appended # {} => ended.update # "pending"

\* a run has updated the known clients and then appended a new one
C10_Witness ==
    /\ ended.outcome = "done"
    /\ ended.update = "done"
    /\ ended.appended # {}
    /\ \E k \in DOMAIN sheet : sheet[k].bsale_id \in ended.appended /\ sheet[k].verified = ""
    /\ \E k \in DOMAIN sheet : sheet[k].phone = "922"

\* the verified store under a reconciliation run, the verification workflow,
\* update_client_details and stop resolution
StoreInit ==
    /\ Start({ <<StoredRow>>, <<VerifiedRow>> }, StoreDirectories)
    /\ CacheStart({NoFile}, {"serving"}, {TRUE}, {0})
    /\ split = NoSplit
    /\ ext = NoExtract
    /\ store_call = NoStoreCall

StoreNext ==
    \/ CliStart
    \/ \E p \in Runs : Fetch(p)
    \/ \E p \in Runs : Update(p)
    \/ \E p \in Runs : Geocode(p)
    \/ \E p \in Runs : Add(p)
    \/ verify_client_address
    \/ fix_client_address
    \/ UpdateClientDetails
    \/ optimize

SpecStore == StoreInit /\ [][StoreNext]_vars

\* the directory cache: startup, refresh requests, refresh threads, readers
CacheInit ==
    /\ Start({ <<StoredRow>> }, { <<Client(1, "911", "Av Lima 1")>> })
    /\ CacheStart({NoFile, OldFile, TruncatedFile, GarbledFile}, {"main", "serving"}, BOOLEAN, DirectoryCounts)
    /\ split = NoSplit
    /\ ext = NoExtract
    /\ store_call = NoStoreCall

CacheNext ==
    \/ preload_clients
    \/ refresh_clients
    \/ \E t \in RefreshThreads : FCheck(t)
    \/ \E t \in RefreshThreads : FSetFlag(t)
    \/ \E t \in RefreshThreads : FPage(t)
    \/ \E t \in RefreshThreads : FFail(t)
    \/ \E t \in RefreshThreads : FCommit(t)
    \/ \E t \in RefreshThreads : FSave(t)
    \/ GetClientsStart
    \/ GetClientsRespond

SpecCache == CacheInit /\ [][CacheNext]_vars

\* C4: at most one refresh thread is paginating the remote directory at any
\* time, whatever the interleaving of refresh requests, startup preload and
\* refresh threads.
C4_AtMostOneRefreshPaginating ==
    Cardinality({t \in RefreshThreads : th[t].pc = "page"}) <= 1

\* a step of thread t inside fetch_bsale_clients_from_api before its commit:
\* every step of a call that ends in the except block is one of these
BeforeCommitStep(t) ==
    /\ th[t].pc \in {"check", "flag", "page"}
    /\ th'[t] # th[t]

\* C5: a refresh that fails with a network error, whatever the number of
\* pages it has fetched, has at no step changed the client collection, the
\* loaded flag or the last-refreshed timestamp, has written nothing to the
\* snapshot file, and returns the collection the cache holds.
C5_FailedRefreshKeepsSnapshot ==
    [][ \A t \in RefreshThreads :
            BeforeCommitStep(t) =>
                /\ CLIENTS_CACHE'.clients = CLIENTS_CACHE.clients
                /\ CLIENTS_CACHE'.loaded = CLIENTS_CACHE.loaded
                /\ CLIENTS_CACHE'.last_updated = CLIENTS_CACHE.last_updated
                /\ cache_file' = cache_file
                /\ th'[t].outcome = "failed" =>
                       /\ th'[t].ret = CLIENTS_CACHE.clients
                       /\ ~CLIENTS_CACHE'.loading ]_vars

\* the first refresh failed on its third page: the cache holds the snapshot
\* loaded from the file, which the call returned, and the file is as it was
C5_Witness ==
    /\ th[1].outcome = "failed"
    /\ th[1].offset = 2 * limit
    /\ th[1].clients.n = 2 * limit
    /\ th[2].pc = "none"
    /\ th[1].ret = OldFile.clients
    /\ CLIENTS_CACHE.clients = OldFile.clients
    /\ CLIENTS_CACHE.loaded
    /\ CLIENTS_CACHE.last_updated = OldFile.last_updated
    /\ CLIENTS_CACHE.loading_progress = 2 * limit
    /\ cache_file = OldFile

\* the loaded flag and the timestamp that were published with a collection
PublishedWith(clients) ==
    IF clients.src = 0 THEN [loaded |-> FALSE, last_updated |-> 0]
    ELSE [loaded |-> TRUE, last_updated |-> clients.src]

\* C6: the body GET /api/clients answers with holds one snapshot: the
\* collection together with the loaded flag and the last-refreshed timestamp
\* that were published with it, never the collection of one snapshot with
\* the flag or the timestamp of another.
C6_ReaderSeesOneSnapshot ==
    [][ (reader.pc = "reading" /\ reader'.pc = "idle")
            => LET body == GetClientsResponse(reader.clients, CLIENTS_CACHE)
               IN  /\ body.loaded = PublishedWith(body.clients).loaded
                   /\ body.last_updated = PublishedWith(body.clients).last_updated ]_vars

\* the columns neither update_client_details nor the batch update may write
FrameColumns == {SHEET_COLUMNS[i] : i \in DOMAIN SHEET_COLUMNS} \ DetailFields

\* the step in which a run's batch_update_client_details call is made
BatchUpdateStep == \E p \in Runs : pc[p] = "update" /\ pc'[p] # "update"

\* C2: a call of batch_update_client_details or of update_client_details
\* writes only name, company, phone, address, district and city: no row is
\* added or removed and verified, maps_link, lat, lng and clean_address (and
\* every other column outside the six) keep their values in every row.
C2_DetailUpdatesKeepFrame ==
    [][ (BatchUpdateStep \/ ndetail' # ndetail)
            => /\ Len(sheet') = Len(sheet)
               /\ \A k \in DOMAIN sheet : \A f \in FrameColumns :
                      sheet'[k][f] = sheet[k][f] ]_vars

\* the batch update has rewritten the phone of the verified row and
\* update_client_details its name, handed a dictionary that also names
\* verified, maps_link, lat, lng and clean_address
C2_Witness ==
    /\ ndetail = 1
    /\ ended.update = "done"
    /\ sheet[1].phone = "922"
    /\ sheet[1].name = "Ana P"
    /\ sheet[1].verified = "yes"
    /\ sheet[1].maps_link = VerifiedRow.maps_link
    /\ sheet[1].clean_address = VerifiedRow.clean_address

\* C3: a row whose verified flag is set keeps the flag, its map link and
\* its coordinates through every step that is neither a verify nor a fix:
\* the steps of a reconciliation run, update_client_details, stop resolution.
C3_VerifiedRowsKept ==
    [][ nuser' = nuser
            => \A k \in DOMAIN sheet :
                   sheet[k].verified = "yes"
                       => /\ k \in DOMAIN sheet'
                          /\ sheet'[k].bsale_id = sheet[k].bsale_id
                          /\ sheet'[k].verified = "yes"
                          /\ sheet'[k].maps_link = sheet[k].maps_link
                          /\ sheet'[k].lat = sheet[k].lat
                          /\ sheet'[k].lng = sheet[k].lng ]_vars

\* a run has updated the verified row and appended a new client next to it,
\* a stop was resolved from it, and the row is verified as it was
C3_Witness ==
    /\ nuser = 0
    /\ ended.outcome = "done"
    /\ ended.update = "done"
    /\ ended.appended = {"2"}
    /\ Len(sheet) = 2
    /\ sheet[1].phone = "922"
    /\ sheet[1].verified = "yes"
    /\ sheet[1].maps_link = VerifiedRow.maps_link
    /\ sheet[1].lat = "3" /\ sheet[1].lng = "4"
    /\ route = <<3, 4>>

(***************************************************************************)
(* The optimize endpoint on a sheet of one record.                         *)
(***************************************************************************)
\* a row add_clients wrote for a client the geocoder did not find
UnlocatedRow ==
    [NewRow(WithLink(Client(1, "911", "Av Lima 1"), NoLink)) EXCEPT !.last_updated = "t0"]

\* the records the sheet may hold for client 1: as add_clients wrote them,
\* after a fix, after a fix with a link that carries ll=a,b, after an edit
\* of the lat / lng cells or of the link cell by hand
RouteRows ==
    { StoredRow,
      VerifiedRow,
      [VerifiedRow EXCEPT !.lat = "8", !.lng = "9"],
      [StoredRow EXCEPT !.maps_link = NoLink, !.lat = "8", !.lng = "9"],
      UnlocatedRow,
      [UnlocatedRow EXCEPT !.address = ""],
      update_client(<<UnlocatedRow>>, 1, FixUpdates(OpaqueLink, "None"))[1],
      update_client(<<UnlocatedRow>>, 1,
                    FixUpdates(LlLink(NotNumeric, NotNumeric), "Jr Cusco 2"))[1] }

RouteInit ==
    /\ Start({ <<row>> : row \in RouteRows }, { <<Client(1, "911", "Av Lima 1")>> })
    /\ CacheStart({NoFile}, {"serving"}, {TRUE}, {0})
    /\ split = NoSplit
    /\ ext = NoExtract
    /\ store_call = NoStoreCall

RouteNext ==
    \/ OptimizeStart
    \/ OptimizeClient
    \/ OptimizeManual
    \/ OptimizeRoute

SpecRoute == RouteInit /\ [][RouteNext]_vars

\* the sheet record of the stop a log entry is about (0: none)
EntryRow(e) == IF e.kind = "client" THEN SheetsClient(opt.rows, e.id) ELSE 0

\* the entry is about a verified record whose map link gives coordinates
VerifiedLink(e) ==
    /\ EntryRow(e) # 0
    /\ opt.rows[EntryRow(e)].verified = "yes"
    /\ opt.rows[EntryRow(e)].maps_link.present
    /\ ~ExtractUrl(opt.rows[EntryRow(e)].maps_link, e.env.head_ok).raised
    /\ ExtractUrl(opt.rows[EntryRow(e)].maps_link, e.env.head_ok).value # NoCoords

\* C11: a stop whose verified record carries a map link that gives
\* coordinates resolves to the coordinates of the link, whatever the stored
\* lat / lng are, whatever the geocoder would answer and whatever the
\* directory cache holds; geocode_address is not called for it
C11_VerifiedLinkWins ==
    \A n \in DOMAIN opt.log :
      VerifiedLink(opt.log[n]) =>
        /\ opt.log[n].coords =
             ExtractUrl(opt.rows[EntryRow(opt.log[n])].maps_link, opt.log[n].env.head_ok).value
        /\ opt.log[n].calls = <<>>

\* a verified record whose link, stored lat / lng, geocoded address and
\* cache copy all give different coordinates has resolved to the link's
C11_Witness ==
    \E n \in DOMAIN opt.log :
      LET e == opt.log[n]
      IN  /\ VerifiedLink(e)
          /\ CellCoords(opt.rows[EntryRow(e)]) = <<8, 9>>
          /\ e.env.geo_sheet = <<4, 4>>
          /\ e.env.copy.present
          /\ e.env.geo_cache = <<6, 8>>
          /\ e.coords = <<3, 4>>
          /\ e.calls = <<>>
          /\ opt.waypoints # <<>>

\* what a step would give for the stop of entry e, taken alone
StepYield(step, e) ==
    LET k == EntryRow(e)
    IN  IF step = "maps_link"
        THEN IF k # 0 /\ opt.rows[k].maps_link.present
             THEN ExtractUrl(opt.rows[k].maps_link, e.env.head_ok).value ELSE NoCoords
        ELSE IF step = "lat_lng"
        THEN IF k # 0 THEN CellCoords(opt.rows[k]) ELSE NoCoords
        ELSE IF step = "address"
        THEN IF k # 0 /\ opt.rows[k].address # "" THEN e.env.geo_sheet ELSE NoCoords
        ELSE IF e.env.copy.present THEN e.env.geo_cache ELSE NoCoords

\* the steps of the claimed order that yield coordinates for entry e
YieldingSteps(e) ==
    { p \in 1..4 :
        StepYield(<<"maps_link", "lat_lng", "address", "bsale_cache">>[p], e) # NoCoords }

FirstYielding(e) == CHOOSE p \in YieldingSteps(e) : \A q \in YieldingSteps(e) : p <= q

\* the place of a step in the claimed order
StepPlace(step) ==
    CHOOSE p \in 1..4 : <<"maps_link", "lat_lng", "address", "bsale_cache">>[p] = step

\* C12: the steps of a stop are tried in the order map link, stored
\* lat / lng, geocoded address of the record, geocoded address of the cache
\* copy; the stop gets the coordinates of the first step that yields some,
\* and no step after that one is attempted
C12_FirstYieldingStepWins ==
    \A n \in DOMAIN opt.log :
      LET e == opt.log[n]
      IN  e.kind = "client" =>
            /\ \A a, b \in DOMAIN e.tried :
                 a < b => StepPlace(e.tried[a]) < StepPlace(e.tried[b])
            /\ IF YieldingSteps(e) = {}
               THEN e.coords = NoCoords
               ELSE /\ e.coords = StepYield(<<"maps_link", "lat_lng", "address",
                                              "bsale_cache">>[FirstYielding(e)], e)
                    /\ \A a \in DOMAIN e.tried : StepPlace(e.tried[a]) <= FirstYielding(e)

\* the same, for the stops whose map link does not make the extractor raise
C12_OrderWhenNothingRaises ==
    \A n \in DOMAIN opt.log :
      LET e == opt.log[n]
      IN  e.kind = "client" /\ ~e.raised =>
            /\ \A a, b \in DOMAIN e.tried :
                 a < b => StepPlace(e.tried[a]) < StepPlace(e.tried[b])
            /\ IF YieldingSteps(e) = {}
               THEN e.coords = NoCoords
               ELSE /\ e.coords = StepYield(<<"maps_link", "lat_lng", "address",
                                              "bsale_cache">>[FirstYielding(e)], e)
                    /\ \A a \in DOMAIN e.tried : StepPlace(e.tried[a]) <= FirstYielding(e)

\* the coordinates of the stops of the log that got some, in the log's order
RECURSIVE Resolved(_)
Resolved(log) ==
    IF log = <<>> THEN <<>>
    ELSE IF Head(log).coords # NoCoords
         THEN <<Head(log).coords>> \o Resolved(Tail(log))
         ELSE Resolved(Tail(log))

\* the log follows the request: the client ids in their order, then the
\* manual links in theirs
LogFollowsRequest ==
    /\ Len(opt.log) = Len(opt.clientIds) + Len(opt.stops)
    /\ \A n \in DOMAIN opt.log :
         IF n <= Len(opt.clientIds)
         THEN opt.log[n].kind = "client" /\ opt.log[n].id = opt.clientIds[n]
         ELSE opt.log[n].kind = "manual"
              /\ opt.log[n].url = opt.stops[n - Len(opt.clientIds)]

\* C13: a client id or a manual link that yields no coordinates is dropped
\* without an error; what the optimizer is handed is the stops that got
\* coordinates, each once, the client ids first and then the manual links,
\* in request order; with one stop resolved the request does not end in
\* the no-stops error
C13_UnresolvableStopsDropped ==
    /\ (opt.pc = "raised" /\ opt.optimizer = "none" => opt.log = <<>>)
    /\ (opt.pc = "route" \/ (opt.pc = "done" /\ opt.origin # NoCoords /\ opt.destination # NoCoords)
          => /\ LogFollowsRequest
             /\ opt.waypoints = Resolved(opt.log)
             /\ (opt.pc = "done" /\ opt.waypoints # <<>> /\ opt.optimizer \in {"no_order", "reversed", "rotated"}
                   => opt.response.status = "ok"))

\* the same, for the requests none of whose stops makes the extractor raise
C13_DroppedWhenNothingRaises ==
    opt.pc = "route" \/ (opt.pc = "done" /\ opt.origin # NoCoords /\ opt.destination # NoCoords)
      => /\ LogFollowsRequest
         /\ opt.waypoints = Resolved(opt.log)
         /\ (opt.pc = "done" /\ opt.waypoints # <<>> /\ opt.optimizer \in {"no_order", "reversed", "rotated"}
               => opt.response.status = "ok")

\* C14: the metadata shown for a stop (name, address, phone, cleaned
\* address, district) does not depend on the step that gave its
\* coordinates: a stop that has a record in the sheet carries the metadata
\* of that record, also when the cache fallback resolved it
C14_MetadataOfTheRecord ==
    \A n \in DOMAIN opt.log :
      LET e == opt.log[n]
      IN  e.kind = "client" /\ EntryRow(e) # 0 /\ e.coords # NoCoords
            => e.info = SheetInfo(opt.rows[EntryRow(e)])

\* the same, for the stops one of the first three steps resolved
C14_MetadataBeforeTheFallback ==
    \A n \in DOMAIN opt.log :
      LET e == opt.log[n]
      IN  e.kind = "client" /\ EntryRow(e) # 0 /\ e.coords # NoCoords
          /\ (\A a \in DOMAIN e.tried : e.tried[a] # "bsale_cache")
            => e.info = SheetInfo(opt.rows[EntryRow(e)])

\* C20: when the origin link or the destination link yields no coordinates
\* the request answers with an error result that carries no route, and no
\* stop is resolved, the geocoder and the optimizer are not called
C20_NoEndpointNoWork ==
    opt.pc # "idle" /\ (opt.origin = NoCoords \/ opt.destination = NoCoords)
      => /\ opt.pc = "done"
         /\ opt.response.status = "error"
         /\ opt.response.stops = <<>>
         /\ opt.response.route_parts = <<>>
         /\ opt.response.google_maps_url = "None"
         /\ opt.log = <<>>
         /\ opt.waypoints = <<>>
         /\ opt.optimizer = "none"

\* the same, for the requests whose origin and destination links do not
\* make the extractor raise
C20_NoWorkWhenNothingRaises ==
    opt.pc \notin {"idle", "raised"} /\ (opt.origin = NoCoords \/ opt.destination = NoCoords)
      => /\ opt.pc = "done"
         /\ opt.response.status = "error"
         /\ opt.response.stops = <<>>
         /\ opt.response.route_parts = <<>>
         /\ opt.response.google_maps_url = "None"
         /\ opt.log = <<>>
         /\ opt.waypoints = <<>>
         /\ opt.optimizer = "none"

(***************************************************************************)
(* generate_split_routes on the lists of WaypointLists, for every maximum  *)
(* from 1 to the default of 8.                                             *)
(***************************************************************************)
SplitInit ==
    /\ Start({ <<StoredRow>> }, { <<Client(1, "911", "Av Lima 1")>> })
    /\ CacheStart({NoFile}, {"serving"}, {TRUE}, {0})
    /\ \E ordered_waypoints \in WaypointLists, max \in 1..max_waypoints_per_route :
         split = [NoSplit EXCEPT !.origin = SplitOrigin,
                                 !.destination = SplitDestination,
                                 !.ordered_waypoints = ordered_waypoints,
                                 !.max = max]
    /\ ext = NoExtract
    /\ store_call = NoStoreCall

SplitNext == CallSplit

SpecSplit == SplitInit /\ [][SplitNext]_vars

\* the least k with k * max >= n
Ceiling(n, max) == CHOOSE k \in 0..n : k * max >= n /\ \A j \in 0..n : j * max >= n => k <= j

\* the call has returned for a list longer than the maximum
SplitOfLongList == split.called /\ Len(split.ordered_waypoints) > split.max

\* C15: a list of n stops with n above the maximum gives ceil(n / max)
\* segments; they are numbered 1, 2, ... in order and each reports the
\* number of segments as its total
C15_CeilingSegmentsNumbered ==
    SplitOfLongList =>
      /\ Len(split.routes) = Ceiling(Len(split.ordered_waypoints), split.max)
      /\ \A p \in DOMAIN split.routes :
           /\ split.routes[p].part_number = p
           /\ split.routes[p].total_parts = Len(split.routes)

\* 17 stops under the default maximum have given 3 segments, 1/3 to 3/3
C15_Witness ==
    /\ split.called
    /\ Len(split.ordered_waypoints) = 17
    /\ split.max = max_waypoints_per_route
    /\ Len(split.routes) = 3
    /\ split.routes[3].part_number = 3
    /\ split.routes[1].total_parts = 3

\* C16: the segments form a chain: the first starts at the origin, the
\* last ends at the destination, each ends where the next starts
C16_SegmentsChain ==
    split.called =>
      /\ split.routes # <<>>
      /\ split.routes[1].start = split.origin
      /\ split.routes[Len(split.routes)].end = split.destination
      /\ \A p \in 1..(Len(split.routes) - 1) :
           split.routes[p].end = split.routes[p + 1].start

\* a split in three whose second segment runs from stop 3 to stop 6
C16_Witness ==
    /\ split.called
    /\ split.max = 3
    /\ Len(split.routes) = 3
    /\ split.routes[2].start = <<3, 3>>
    /\ split.routes[2].end = <<6, 6>>
    /\ split.routes[3].end = split.destination

RECURSIVE Visited(_)
\* the intermediates of every segment followed by its end
Visited(routes) ==
    IF routes = <<>> THEN <<>>
    ELSE Head(routes).waypoints \o <<Head(routes).end>> \o Visited(Tail(routes))

\* C17: no stop is lost, repeated or reordered: the intermediates of each
\* segment followed by its end, without the final destination, are the
\* list that was handed in; the stop two segments meet at is the last of
\* its chunk and not one of the intermediates cut from that chunk
C17_StopsKept ==
    split.called =>
      /\ Visited(split.routes) = split.ordered_waypoints \o <<split.destination>>
      /\ \A p \in 1..(Len(split.routes) - 1) :
           LET before == Len(Visited(SubSeq(split.routes, 1, p - 1)))
               part == split.routes[p]
           IN  /\ part.end = split.ordered_waypoints[before + Len(part.waypoints) + 1]
               /\ part.waypoints =
                    SubSeq(split.ordered_waypoints, before + 1, before + Len(part.waypoints))
      /\ ((\A a, b \in DOMAIN split.ordered_waypoints :
              a # b => split.ordered_waypoints[a] # split.ordered_waypoints[b])
            => \A p \in 1..(Len(split.routes) - 1), q \in DOMAIN split.routes :
                 \A a \in DOMAIN split.routes[q].waypoints :
                   split.routes[q].waypoints[a] # split.routes[p].end)

\* a list in which stops repeat has been split in more than two segments
C17_Witness ==
    /\ split.called
    /\ Len(split.routes) > 2
    /\ Len(split.ordered_waypoints) > 4
    /\ split.ordered_waypoints[1] = split.ordered_waypoints[3]
    /\ Visited(split.routes) = split.ordered_waypoints \o <<split.destination>>

\* the points of a segment: its start, its intermediates, its end
Points(part) == Len(part.waypoints) + 2

\* C18: no segment holds more than max + 2 points, so none holds more than
\* 10 under the default maximum of 8
C18_SegmentSizeBounded ==
    split.called =>
      \A p \in DOMAIN split.routes :
        /\ Points(split.routes[p]) <= split.max + 2
        /\ (split.max = 8 => Points(split.routes[p]) <= 10)

\* under the default maximum a single segment holds 10 points, and a split
\* list has given a last segment of 10 points
C18_Witness ==
    /\ split.called
    /\ split.max = 8
    /\ Len(split.ordered_waypoints) = 16
    /\ Len(split.routes) = 2
    /\ Points(split.routes[2]) = 10
    /\ Points(split.routes[1]) = 9

\* C19: a list no longer than the maximum, the empty list and a list of
\* exactly max stops included, gives one segment from the origin to the
\* destination whose intermediates are the whole list, numbered 1 of 1
C19_ShortListOneSegment ==
    split.called /\ Len(split.ordered_waypoints) <= split.max =>
      /\ Len(split.routes) = 1
      /\ split.routes[1].start = split.origin
      /\ split.routes[1].end = split.destination
      /\ split.routes[1].waypoints = split.ordered_waypoints
      /\ split.routes[1].part_number = 1
      /\ split.routes[1].total_parts = 1

\* the empty list has given its one segment
C19_Witness ==
    /\ split.called
    /\ split.ordered_waypoints = <<>>
    /\ Len(split.routes) = 1
    /\ split.routes[1].waypoints = <<>>
    /\ split.routes[1].url = "https://www.google.com/maps/dir/90,1/91,1"

(***************************************************************************)
(* The optimizer half of the optimize endpoint.                            *)
(***************************************************************************)
\* the optimizer was called and failed or found no route
OptimizerFailed ==
    opt.optimizer \in {"no_key", "request_failed", "no_routes", "empty_routes"}

\* C21: when the optimizer call errors or returns no route (an error
\* value, a body without routes, an empty routes list) the request answers
\* with an error result that carries no stops and no route; it does not
\* raise out of the handler
C21_OptimizerFailureIsAnError ==
    OptimizerFailed =>
      /\ opt.pc = "done"
      /\ opt.response.status = "error"
      /\ opt.response.stops = <<>>
      /\ opt.response.route_parts = <<>>
      /\ opt.response.google_maps_url = "None"

\* the same, for the failures other than an empty routes list
C21_ErrorUnlessRoutesEmpty ==
    OptimizerFailed /\ opt.optimizer # "empty_routes" =>
      /\ opt.pc = "done"
      /\ opt.response.status = "error"
      /\ opt.response.stops = <<>>
      /\ opt.response.route_parts = <<>>
      /\ opt.response.google_maps_url = "None"

\* why a request ended in an error result
Cause ==
    IF opt.origin = NoCoords \/ opt.destination = NoCoords THEN "endpoints"
    ELSE IF opt.optimizer = "none" THEN "no_stops"
    ELSE "optimizer"

\* does text start with prefix
StartsWith(text, prefix) ==
    Len(text) >= Len(prefix) /\ SubSeq(text, 1, Len(prefix)) = prefix

\* what a caller makes of an error result, from its value alone
CauseRead(error) ==
    IF StartsWith(error, "No se pudo extraer coordenadas del ") THEN "endpoints"
    ELSE IF error = "No se encontraron paradas válidas" THEN "no_stops"
    ELSE "optimizer"

\* C22: the error result of a request all of whose stops were dropped, the
\* one of an origin or destination without coordinates and the one of an
\* optimizer failure are told apart by their value: what the caller reads
\* from the value is the condition that produced it
C22_ErrorsToldApart ==
    opt.pc = "done" /\ opt.response.status = "error" => CauseRead(opt.response.error) = Cause

\* every stop of a request was dropped, and the result says so
C22_Witness ==
    /\ opt.pc = "done"
    /\ Len(opt.log) = 2
    /\ opt.waypoints = <<>>
    /\ opt.response.status = "error"
    /\ CauseRead(opt.response.error) = "no_stops"

\* C23: when the optimizer returns a permutation, position k of the
\* ordered result holds the coordinates and the metadata of the resolved
\* stop the permutation names at k; the ordered list is a permutation of
\* the resolved list
C23_OrderKeepsPairs ==
    opt.pc = "done" /\ opt.response.status = "ok" =>
      LET n == Len(opt.waypoints)
          order == OptimizedOrder(opt.optimizer, n)
      IN  /\ Len(opt.response.stops) = n
          /\ \A k \in 1..n :
               /\ opt.response.stops[k].coords = opt.waypoints[order[k]]
               /\ opt.response.stops[k].coords = opt.waypoint_info[order[k]].coords
               /\ opt.response.stops[k].client_name = opt.waypoint_info[order[k]].client_name
               /\ opt.response.stops[k].phone = opt.waypoint_info[order[k]].phone
               /\ opt.response.stops[k].clean_address = opt.waypoint_info[order[k]].clean_address
               /\ opt.response.stops[k].district = opt.waypoint_info[order[k]].district
               /\ opt.response.stops[k].is_client = opt.waypoint_info[order[k]].is_client
          /\ \A m \in 1..n :
               Cardinality({k \in 1..n : order[k] = m}) = 1

\* three stops, a client of the sheet, a client of the cache and a manual
\* link, come back rotated by one
C23_Witness ==
    /\ opt.pc = "done"
    /\ opt.response.status = "ok"
    /\ opt.optimizer = "rotated"
    /\ Len(opt.waypoints) = 3
    /\ opt.response.stops[3].coords = opt.waypoints[1]
    /\ opt.response.stops[3].is_client
    /\ ~opt.response.stops[2].is_client
    /\ opt.waypoints[1] # opt.waypoints[2]

(***************************************************************************)
(* extract_coords_from_url on the URLs of ExtractUrls.                     *)
(***************************************************************************)
ExtractInit ==
    /\ Start({ <<StoredRow>> }, { <<Client(1, "911", "Av Lima 1")>> })
    /\ CacheStart({NoFile}, {"serving"}, {TRUE}, {0})
    /\ split = NoSplit
    /\ ext \in { e \in [called : {FALSE}, url : ExtractUrls, head_ok : BOOLEAN,
                        outcome : {Returned(NoCoords)}] :
                   ~e.url.short => e.head_ok }
    /\ store_call = NoStoreCall

ExtractNext == CallExtract

SpecExtract == ExtractInit /\ [][ExtractNext]_vars

\* the pair of the first shape of the claimed order the URL matches
FirstShape(url) ==
    IF url.place # NoCoords THEN url.place
    ELSE IF url.at # NoCoords THEN url.at
    ELSE IF url.q # NoCoords THEN url.q
    ELSE IF url.path # NoCoords THEN url.path
    ELSE IF Len(url.ll) = 2 THEN url.ll
    ELSE NoCoords

\* C24: the extractor returns the pair of the first shape that matches, in
\* the order place marker, viewport centre, q parameter, path, ll
\* parameter; a URL that matches no shape gives none
C24_FirstShapeWins ==
    ext.called /\ (ext.url.short => ext.head_ok) =>
      ext.outcome = Returned(FirstShape(ext.url))

\* the same, for the URLs whose ll parameter is not reached or spells
\* numbers
C24_FirstShapeWhenNothingRaises ==
    ext.called /\ (ext.url.short => ext.head_ok) /\ ~ext.outcome.raised =>
      ext.outcome = Returned(FirstShape(ext.url))

\* C25: the extractor never raises: for a short link whose resolution
\* fails it returns none without looking for a shape, for any other input
\* it returns a pair or none
C25_ExtractNeverRaises ==
    ext.called =>
      /\ ~ext.outcome.raised
      /\ (ext.url.short /\ ~ext.head_ok => ext.outcome = Returned(NoCoords))

\* a short link whose resolution fails gives none, whatever it redirects to
C25_FailedResolutionGivesNone ==
    ext.called /\ ext.url.short /\ ~ext.head_ok => ext.outcome = Returned(NoCoords)

(***************************************************************************)
(* load_clients_from_file, as preload_clients calls it at startup.         *)
(***************************************************************************)
\* the steps of preload_clients that call load_clients_from_file
LoadStep == boot = "main" /\ (boot' = "crashed" \/ th' # th)

\* the snapshot file is there and reads as a JSON object
Readable(file) == file.exists /\ file.content = "object"

\* C26: load_clients_from_file never fails its caller; with a missing or
\* corrupt snapshot file it returns an empty list and leaves the cache as
\* it was (no clients, not loaded); with a readable file it stores the
\* file's clients and timestamp and sets loaded
C26_LoadNeverFails ==
    [][ LoadStep =>
          LET cached_clients == load_clients_from_file(CLIENTS_CACHE, cache_file)
          IN  /\ boot' = "serving"
              /\ ~cached_clients.raised
              /\ IF Readable(cache_file)
                 THEN /\ cached_clients.ret = cache_file.clients
                      /\ CLIENTS_CACHE'.clients = cache_file.clients
                      /\ CLIENTS_CACHE'.last_updated = cache_file.last_updated
                      /\ CLIENTS_CACHE'.loaded
                 ELSE /\ cached_clients.ret = EmptyList
                      /\ CLIENTS_CACHE' = CLIENTS_CACHE
                      /\ CLIENTS_CACHE'.clients = EmptyList
                      /\ ~CLIENTS_CACHE'.loaded ]_vars

\* the same, for the files whose bytes decode
C26_LoadOfDecodableFiles ==
    [][ LoadStep /\ cache_file.content # "garbled" =>
          LET cached_clients == load_clients_from_file(CLIENTS_CACHE, cache_file)
          IN  /\ boot' = "serving"
              /\ ~cached_clients.raised
              /\ IF Readable(cache_file)
                 THEN /\ cached_clients.ret = cache_file.clients
                      /\ CLIENTS_CACHE'.clients = cache_file.clients
                      /\ CLIENTS_CACHE'.last_updated = cache_file.last_updated
                      /\ CLIENTS_CACHE'.loaded
                 ELSE /\ cached_clients.ret = EmptyList
                      /\ CLIENTS_CACHE' = CLIENTS_CACHE
                      /\ CLIENTS_CACHE'.clients = EmptyList
                      /\ ~CLIENTS_CACHE'.loaded ]_vars

(***************************************************************************)
(* What a poller of GET /api/sheets/sync/status reads: SYNC_STATE as it is *)
(* in any state.                                                           *)
(***************************************************************************)
\* the stages of a run that has not ended
StagesInProgress == {"fetching_bsale", "comparing", "updating", "geocoding", "adding"}

\* C28: the reconciliation state is replaced as a whole when a run starts:
\* a poller never reads a stage of the new run together with the progress,
\* total, counts, message or error an earlier run left.  A stage in
\* progress comes with no error; the first stage comes with the counters
\* and the messages of a run that has fetched nothing yet; the second with
\* no progress and no counts
C28_NoFieldOfAnEarlierRun ==
    /\ SYNC_STATE.stage \in StagesInProgress => SYNC_STATE.error = "None"
    /\ SYNC_STATE.stage = "fetching_bsale" =>
         /\ SYNC_STATE.progress = 0
         /\ SYNC_STATE.total = 0
         /\ SYNC_STATE.new_clients = 0
         /\ SYNC_STATE.updated_clients = 0
         /\ SYNC_STATE.message \in {"Conectando con Bsale...", "Obteniendo clientes de Bsale..."}
    /\ SYNC_STATE.stage = "comparing" =>
         /\ SYNC_STATE.progress = 0
         /\ SYNC_STATE.new_clients = 0
         /\ SYNC_STATE.updated_clients = 0

\* the first statement of a worker thread leaves the fresh dictionary,
\* whatever the state held
C28_ReplacedAtStart ==
    [][ \A w \in Workers :
          pc[w] = "spawned" /\ pc'[w] = "fetch" => SYNC_STATE' = FreshSyncState ]_vars

\* a worker thread is in its geocoding loop
InGeocoding == \E w \in Workers : pc[w] \in {"geocode", "sleep"}

\* the step in which worker w stores the progress of a record
ProgressStore(w) == pc[w] = "geocode" /\ pc'[w] = "sleep"

\* C29: while a run geocodes, the progress counter goes up by exactly one
\* for each new record processed, never goes down, and every state a
\* poller can read has 0 <= progress <= total
C29_ProgressCountsRecords ==
    [][ /\ InGeocoding' =>
              /\ 0 <= SYNC_STATE'.progress
              /\ SYNC_STATE'.progress <= SYNC_STATE'.total
        /\ InGeocoding /\ InGeocoding' => SYNC_STATE'.progress >= SYNC_STATE.progress
        /\ \A w \in Workers :
              ProgressStore(w) => SYNC_STATE'.progress = SYNC_STATE.progress + 1 ]_vars

\* the number a run stores is the count of its own records processed, one
\* more than at its last turn, at most the number of its new records and
\* of the clients it fetched
C29_RunCountsItsRecords ==
    [][ \A w \in Workers :
          ProgressStore(w) =>
              /\ SYNC_STATE'.progress = loc'[w].i
              /\ loc'[w].i = loc[w].i + 1
              /\ loc'[w].i <= Len(loc'[w].new_clients)
              /\ Len(loc'[w].new_clients) <= Len(loc'[w].bsale) ]_vars

(***************************************************************************)
(* The background jobs, page by page.  Both pagination loops read the same *)
(* Bsale directory, which holds listing.count clients and may change while *)
(* a job runs; a request to it may fail.  A reconciliation run keeps the   *)
(* number of clients it has taken in (offset); the records it goes on with *)
(* are those of `remote`, one for each distinct client of the model.       *)
(***************************************************************************)
\* the numbers of clients the directory may hold while jobs run
JobsCounts == {40, 120}

\* what fetch_all_bsale_clients returns after taking in offset clients
FetchedClients(offset) == IF offset = 0 THEN <<>> ELSE remote

\* a loop that starts over after its second page
WrapOffset(offset, items) == IF offset + items >= 2 * limit THEN 0 ELSE offset + items

\* offset += len(items)
NextOffset(offset, items) == offset + items

\* sync_clients.py 100-125: the token test and the count request; a failure
\* of either returns the empty list
FetchCount(p) ==
    /\ pc[p] = "fetch"
    /\ \/ FetchReturn(p, loc[p], <<>>)
       \/ /\ listing.token
          /\ pc' = [pc EXCEPT ![p] = "pages"]
          /\ loc' = [loc EXCEPT ![p].offset = 0]
          /\ ended' = ended
          /\ SYNC_STATE' = IF IsCli(p) THEN SYNC_STATE
                           ELSE [SYNC_STATE EXCEPT !.message = "Obteniendo clientes de Bsale..."]
    /\ UNCHANGED <<sheet, nreq, resp, nuser, ndetail, route, remote>>
    /\ UNCHANGED <<cacheVars, routeVars>>

\* sync_clients.py 127-165: one turn of the page loop.  The loop is left
\* when the request fails, when the page is empty and after a page shorter
\* than limit
FetchPage(p) ==
    /\ pc[p] = "pages"
    /\ \/ FetchReturn(p, loc[p], FetchedClients(loc[p].offset))
       \/ LET items == PageItems(listing.count, loc[p].offset)
              offset == NextOffset(loc[p].offset, items)
              l == [loc[p] EXCEPT !.offset = offset]
          IN  IF items = 0
              THEN FetchReturn(p, loc[p], FetchedClients(loc[p].offset))
              ELSE IF items < limit
              THEN FetchReturn(p, l, FetchedClients(offset))
              ELSE /\ pc' = pc
                   /\ loc' = [loc EXCEPT ![p] = l]
                   /\ ended' = ended
                   /\ SYNC_STATE' = SYNC_STATE
    /\ UNCHANGED <<sheet, nreq, resp, nuser, ndetail, route, remote>>
    /\ UNCHANGED <<cacheVars, routeVars>>

\* app.py 404-417: a page is fetched and total_count is stored
PageTotal(t) ==
    /\ th[t].pc = "page"
    /\ CLIENTS_CACHE' = [CLIENTS_CACHE EXCEPT !.total_count = listing.count]
    /\ th' = [th EXCEPT ![t] = [@ EXCEPT !.total_count = listing.count, !.pc = "progress"]]
    /\ UNCHANGED <<cache_file, boot, refresh_resp, reader, listing>>
    /\ UNCHANGED <<syncVars, routeVars>>

\* app.py 418-440: loading_progress is stored, the page is taken in
PageProgress(t) ==
    /\ th[t].pc = "progress"
    /\ LET total_count == th[t].total_count
           items == PageItems(total_count, th[t].offset)
           offset == th[t].offset + limit
           last == items = 0 \/ offset >= total_count
       IN  /\ CLIENTS_CACHE' = [CLIENTS_CACHE EXCEPT
                                  !.loading_progress = Min(th[t].offset + items, total_count)]
           /\ th' = [th EXCEPT ![t] =
                       [@ EXCEPT !.clients.n = @ + items,
                                 !.offset = IF items = 0 THEN @ ELSE offset,
                                 !.pc = IF last THEN "commit_clients" ELSE "page"]]
    /\ UNCHANGED <<cache_file, boot, refresh_resp, reader, listing>>
    /\ UNCHANGED <<syncVars, routeVars>>

\* clients are added to the Bsale directory or leave it
DirectoryChanges ==
    /\ \E count \in JobsCounts \ {listing.count} :
         listing' = [listing EXCEPT !.count = count]
    /\ UNCHANGED <<CLIENTS_CACHE, cache_file, boot, th, refresh_resp, reader>>
    /\ UNCHANGED <<syncVars, routeVars>>

\* the directory of the jobs: a client the sheet holds and one it does not
JobsDirectory == <<Client(1, "922", "Av Lima 1"), Client(2, "933", "Jr Ica 5")>>

JobsInit ==
    /\ Start({ <<StoredRow>> }, {JobsDirectory})
    /\ CacheStart({NoFile}, {"serving"}, {TRUE}, JobsCounts)
    /\ split = NoSplit
    /\ ext = NoExtract
    /\ store_call = NoStoreCall

NoRefresh == \A t \in RefreshThreads : th[t].pc = "none"

\* a step of reconciliation run p
RunStep(p) ==
    \/ p \in Workers /\ WInit(p)
    \/ FetchCount(p)
    \/ FetchPage(p)
    \/ p \in Workers /\ Compare(p)
    \/ Update(p)
    \/ Geocode(p)
    \/ p \in Workers /\ Sleep(p)
    \/ Add(p)

\* a step of refresh thread t
RefreshStep(t) ==
    \/ FCheck(t)
    \/ FSetFlag(t)
    \/ PageTotal(t)
    \/ PageProgress(t)
    \/ FFail(t)
    \/ FCommit(t)
    \/ FSave(t)

\* no job has been started
NoJob == NoRefresh /\ nreq = 0 /\ pc[Cli] = "none"

\* one job is started in a behaviour, by the sync endpoint, the command line
\* or the refresh endpoint: the steps of a job read nothing that another
\* job writes but the sheet and the loading flag, and neither decides how
\* long a job runs
JobsNext ==
    \/ NoJob /\ sync_bsale_to_sheets
    \/ NoJob /\ CliStart
    \/ NoJob /\ refresh_clients
    \/ \E p \in Runs : RunStep(p)
    \/ \E t \in RefreshThreads : RefreshStep(t)
    \/ DirectoryChanges

\* every thread and the command line get to run, and every network call
\* returns or times out (timeout = 10 and 30 on every requests call)
JobsFair ==
    /\ \A p \in Runs : WF_vars(RunStep(p))
    /\ \A t \in RefreshThreads : WF_vars(RefreshStep(t))

SpecJobs == JobsInit /\ [][JobsNext]_vars /\ JobsFair

C30_ProgressWithinTotal ==
    /\ 0 <= CLIENTS_CACHE.loading_progress
    /\ CLIENTS_CACHE.loading_progress <= CLIENTS_CACHE.total_count
    /\ \A t \in RefreshThreads :
         /\ th[t].pc = "page" /\ th[t].offset > 0 =>
              /\ CLIENTS_CACHE.total_count = th[t].total_count
              /\ CLIENTS_CACHE.loading_progress = Min(th[t].offset, th[t].total_count)
         /\ th[t].pc \in {"commit_updated", "save"} =>
              CLIENTS_CACHE.loading_progress = CLIENTS_CACHE.total_count

\* the same, but for the states in which a thread is between the store of
\* total_count and the store of loading_progress
C30_WithinTotalAfterBothStores ==
    (\A u \in RefreshThreads : th[u].pc # "progress") =>
        /\ 0 <= CLIENTS_CACHE.loading_progress
        /\ CLIENTS_CACHE.loading_progress <= CLIENTS_CACHE.total_count
        /\ \A t \in RefreshThreads :
             /\ th[t].pc = "page" /\ th[t].offset > 0 =>
                  /\ CLIENTS_CACHE.total_count = th[t].total_count
                  /\ CLIENTS_CACHE.loading_progress = Min(th[t].offset, th[t].total_count)
             /\ th[t].pc \in {"commit_updated", "save"} =>
                  CLIENTS_CACHE.loading_progress = CLIENTS_CACHE.total_count

(***************************************************************************)
(* The geocoding loop of a reconciliation run and its add step.            *)
(***************************************************************************)
\* run p is in its geocoding loop and a record it has processed was left
\* without a map link
LeftWithoutLink(p) ==
    /\ pc[p] \in {"geocode", "sleep"}
    /\ \E k \in 1..loc[p].i : loc[p].new_clients[k].maps_link = NoLink

\* run p goes on with the batch: it stays in the loop with the records it
\* had, or has geocoded them all and is at add_clients with all of them
BatchGoesOn(p) ==
    /\ pc'[p] \in {"geocode", "sleep", "add"}
    /\ Len(loc'[p].new_clients) = Len(loc[p].new_clients)
    /\ pc'[p] = "add" =>
          loc[p].i + (IF pc[p] = "geocode" THEN 1 ELSE 0) = Len(loc[p].new_clients)

\* the geocoder call of the step returns (a link or the empty string)
GeocoderReturns == ended'.exc # "geocode: malformed response"

\* C31: a new record that could not be geocoded is left with an empty map
\* link and the batch is not aborted: the run goes on geocoding the
\* remaining records and passes all new records to the add step
C31_FailedGeocodeKeepsBatch ==
    [][ \A p \in Runs : LeftWithoutLink(p) /\ GeocoderReturns => BatchGoesOn(p) ]_vars

\* the same for the command line, whose module binds the name `time`
C31_CommandLineKeepsBatch ==
    [][ LeftWithoutLink(Cli) /\ GeocoderReturns => BatchGoesOn(Cli) ]_vars

(***************************************************************************)
(* The stage of SYNC_STATE as a poller sees it move.                       *)
(***************************************************************************)
StageRank(stage) ==
    CASE stage = "fetching_bsale" -> 1
      [] stage = "comparing" -> 2
      [] stage = "updating" -> 3
      [] stage = "geocoding" -> 4
      [] stage = "adding" -> 5
      [] stage \in {"done", "error"} -> 6
      [] OTHER -> 0

\* the rank of the stage a worker thread at position p has stored last
PcRank(p) ==
    CASE p = "fetch" -> 1
      [] p = "compare" -> 2
      [] p = "update" -> 3
      [] p \in {"geocode", "sleep"} -> 4
      [] p = "add" -> 5
      [] p = "ended" -> 6
      [] OTHER -> 0

\* a worker thread runs its first statement: a new run starts
RunStarts == \E w \in Workers : pc[w] = "spawned" /\ pc'[w] = "fetch"

\* C32: the stage a poller observes only moves forward along fetching,
\* comparing, updating, geocoding, adding, done (stages may be skipped),
\* error is entered from a stage in progress, and a stage of done or error
\* does not change until a new run starts
C32_StageOnlyForward ==
    [][ SYNC_STATE'.stage # SYNC_STATE.stage =>
          \/ RunStarts /\ SYNC_STATE'.stage = "fetching_bsale"
          \/ /\ SYNC_STATE.stage \in StagesInProgress
             /\ SYNC_STATE'.stage \in StagesInProgress \cup {"done", "error"}
             /\ StageRank(SYNC_STATE.stage) < StageRank(SYNC_STATE'.stage) ]_vars

\* the stages one run stores: a step of a worker thread takes it forward,
\* and the stage it stores, if any, is the stage it has reached
C32_RunStoresForward ==
    [][ \A w \in Workers :
          pc'[w] # pc[w] /\ pc[w] # "none" =>
              /\ PcRank(pc[w]) <= PcRank(pc'[w])
              /\ SYNC_STATE'.stage # SYNC_STATE.stage =>
                    StageRank(SYNC_STATE'.stage) = PcRank(pc'[w]) ]_vars

(***************************************************************************)
(* The in-flight flags of the two background jobs.                         *)
(***************************************************************************)
\* worker thread w leaves run_sync_with_progress in this step
RunExits(w) == Running(w) /\ pc'[w] = "ended"

\* refresh thread t, which has set loading, leaves
\* fetch_bsale_clients_from_api in this step
RefreshExits(t) == th[t].pc \notin {"none", "check", "flag", "done"} /\ th'[t].pc = "done"

\* C33: the in-flight flag of a job is released on every exit path: after a
\* reconciliation run or a cache refresh that set its flag has ended
\* (success, handled failure or exception) syncing, respectively loading, is
\* False; and whenever syncing is False the stage is the initial value,
\* done or error
C33_FlagsReleased ==
    [][ /\ \A w \in Workers : RunExits(w) => ~SYNC_STATE'.syncing
        /\ \A t \in RefreshThreads : RefreshExits(t) => ~CLIENTS_CACHE'.loading
        /\ ~SYNC_STATE'.syncing =>
              SYNC_STATE'.stage \in {InitialSyncState.stage, "done", "error"} ]_vars

\* every exit of a job stores False into its flag, and a run stores it
\* together with a terminal stage
C33_ExitStoresFlag ==
    [][ /\ \A w \in Workers :
              RunExits(w) => /\ ~SYNC_STATE'.syncing
                             /\ SYNC_STATE'.stage \in {"done", "error"}
        /\ \A t \in RefreshThreads : RefreshExits(t) => ~CLIENTS_CACHE'.loading ]_vars

(***************************************************************************)
(* A page request of fetch_all_bsale_clients that fails.                   *)
(***************************************************************************)
\* run p leaves the page loop in this step although the directory had a
\* page for it and it took none in: the request of the page has failed
PageRequestFails(p) ==
    /\ pc[p] = "pages"
    /\ pc'[p] # "pages"
    /\ PageItems(listing.count, loc[p].offset) > 0
    /\ (IF pc'[p] = "ended" THEN ended'.offset ELSE loc'[p].offset) = loc[p].offset

\* run p ends in this step, on the endpoint with stage "error", and the
\* verified store is as it was
EndsInError(p) ==
    /\ pc'[p] = "ended"
    /\ sheet' = sheet
    /\ ~IsCli(p) => SYNC_STATE'.stage = "error" /\ ~SYNC_STATE'.syncing

\* C34: a run leaves the fetching stage only with the full remote
\* directory: when a page request fails the run ends in stage error and
\* neither compares, updates nor adds with the pages fetched before
C34_FailedPageEndsRun ==
    [][ \A w \in Workers : PageRequestFails(w) => EndsInError(w) ]_vars

\* a failure of the first page request ends the run
C34_FailedFirstPageEndsRun ==
    [][ \A p \in Runs : PageRequestFails(p) /\ loc[p].offset = 0 => EndsInError(p) ]_vars

(***************************************************************************)
(* The identifiers of the verified store under the command-line run, with  *)
(* a Bsale directory that may list a client twice (a client that moves     *)
(* from one page to the next while fetch_all_bsale_clients pages by        *)
(* offset is taken in twice).                                              *)
(***************************************************************************)
\* a directory whose listing holds client 2 twice
RepeatingDirectory ==
    <<Client(1, "922", "Av Lima 1"), Client(2, "933", "Jr Ica 5"), Client(2, "933", "Jr Ica 5")>>

AddInit ==
    /\ Start({ <<StoredRow>>, <<VerifiedRow>> }, StoreDirectories \cup {RepeatingDirectory})
    /\ CacheStart({NoFile}, {"serving"}, {TRUE}, {0})
    /\ split = NoSplit
    /\ ext = NoExtract
    /\ store_call = NoStoreCall

AddNext ==
    \/ CliStart
    \/ Fetch(Cli)
    \/ Update(Cli)
    \/ Geocode(Cli)
    \/ Add(Cli)

SpecAdd == AddInit /\ [][AddNext]_vars

\* no two rows of the sheet share a bsale_id
UniqueIds(rows) ==
    \A j, k \in DOMAIN rows : j # k => rows[j].bsale_id # rows[k].bsale_id

\* the rows a step has appended
AppendedRows == (DOMAIN sheet') \ (DOMAIN sheet)

\* C35: identifiers stay unique: when no two rows share a bsale_id before a
\* step of a reconciliation run or of add_clients, none do after it, also
\* with a directory that lists an identifier twice, and add_clients appends
\* no row for an identifier already present
C35_IdsStayUnique ==
    [][ UniqueIds(sheet) =>
          /\ UniqueIds(sheet')
          /\ \A k \in AppendedRows :
                sheet'[k].bsale_id \notin get_existing_bsale_ids(sheet) ]_vars

\* add_clients appends no row for an identifier the sheet held when the
\* call started, and with a batch that names no identifier twice the
\* identifiers stay unique
C35_NoRowForKnownId ==
    [][ /\ \A k \in AppendedRows :
              sheet'[k].bsale_id \notin get_existing_bsale_ids(sheet)
        /\ (UniqueIds(sheet) /\ remote # RepeatingDirectory) => UniqueIds(sheet') ]_vars

(***************************************************************************)
(* The update-existing step applied again.  Runs follow one another (a     *)
(* request is made when no run is in flight), so a later run applies       *)
(* batch_update_client_details to what an earlier run left.  A client that *)
(* is edited while fetch_all_bsale_clients pages by offset, and moves from *)
(* one page to the next, is taken in twice with two values.                *)
(***************************************************************************)
\* a directory whose listing holds client 1 twice, with two phone numbers
ConflictingDirectory ==
    <<Client(1, "922", "Av Lima 1"), Client(1, "944", "Av Lima 1")>>

UpdateInit ==
    /\ Start({ <<StoredRow>>, <<VerifiedRow>> }, SyncDirectories \cup {ConflictingDirectory})
    /\ CacheStart({NoFile}, {"serving"}, {TRUE}, {0})
    /\ split = NoSplit
    /\ ext = NoExtract
    /\ store_call = NoStoreCall

UpdateNext ==
    \/ ServerQuiet /\ CliQuiet /\ sync_bsale_to_sheets
    \/ \E w \in Workers : WInit(w)
    \/ ServerQuiet /\ CliStart
    \/ \E p \in Runs : Fetch(p)
    \/ \E w \in Workers : Compare(w)
    \/ \E p \in Runs : Update(p)
    \/ \E p \in Runs : Geocode(p)
    \/ \E w \in Workers : Sleep(w)
    \/ Add(Cli)

SpecUpdate == UpdateInit /\ [][UpdateNext]_vars

\* the records of a batch that name the same client carry the same details
Agreeing(clients) ==
    \A i, j \in DOMAIN clients :
        clients[i].bsale_id = clients[j].bsale_id =>
            FieldValues(clients[i]) = FieldValues(clients[j])

\* run p's call of batch_update_client_details is made in this step and its
\* write reaches the sheet
UpdateApplied(p) ==
    /\ pc[p] = "update"
    /\ pc'[p] # "update"
    /\ sheet' = batch_update_client_details(sheet, sheet, loc[p].existing_clients, 1)

\* a second call with the same records changes nothing and returns 0
SecondCallIdle(rows, clients) ==
    /\ batch_update_client_details(rows, rows, clients, 1) = rows
    /\ UpdatedCount(rows, clients) = 0

\* a cell differs after the step only where a record of the batch carried a
\* value other than the stored one
OnlyDifferingCellsWritten(clients) ==
    \A k \in DOMAIN sheet : \A f \in DOMAIN sheet[k] :
        sheet'[k][f] # sheet[k][f] =>
            \E i \in DOMAIN clients :
                /\ Str(clients[i].bsale_id) = sheet[k].bsale_id
                /\ f \in ChangedFields(sheet, clients[i])
                /\ sheet'[k][f] = FieldValues(clients[i])[f]

\* C36 as stated: batch_update_client_details is idempotent for any remote
\* records: a second call with the same records changes nothing and returns
\* 0, and a call writes a cell only where the remote value differs
C36_UpdateIdempotent ==
    [][ \A p \in Runs :
          UpdateApplied(p) =>
              /\ SecondCallIdle(sheet', loc[p].existing_clients)
              /\ OnlyDifferingCellsWritten(loc[p].existing_clients) ]_vars

\* C36: batch_update_client_details is idempotent for remote records that
\* agree on every client they name: a second call with the same records
\* changes nothing and returns 0; and for any records a call writes a cell
\* only where the remote value differs from the stored one
C36_UpdateIdempotentWhenRecordsAgree ==
    [][ \A p \in Runs :
          UpdateApplied(p) =>
              /\ Agreeing(loc[p].existing_clients) =>
                    SecondCallIdle(sheet', loc[p].existing_clients)
              /\ OnlyDifferingCellsWritten(loc[p].existing_clients) ]_vars

(***************************************************************************)
(* The counts a run leaves in SYNC_STATE when it reaches "done".           *)
(***************************************************************************)
\* worker thread w reaches the end of its try block in this step
ReachesDone(w) ==
    /\ pc[w] # "ended"
    /\ pc'[w] = "ended"
    /\ ended'.run = w
    /\ ended'.outcome = "done"

\* C37: when a run reaches done, its new_clients count is the number of
\* records it appended to the verified store and its updated_clients count
\* the number of known records whose descriptive fields it rewrote
C37_CountsMatchTheRun ==
    [][ \A w \in Workers :
          ReachesDone(w) =>
              /\ SYNC_STATE'.stage = "done"
              /\ SYNC_STATE'.new_clients = Cardinality(ended'.appended)
              /\ SYNC_STATE'.updated_clients = ended'.rewritten ]_vars

(***************************************************************************)
(* The store's own functions, called one at a time on a sheet of one row:  *)
(* verify_client and fix_client_address as the verification workflow calls *)
(* them, add_clients as a reconciliation run calls it with one geocoded    *)
(* client.                                                                 *)
(***************************************************************************)
\* a link that carries only a viewport centre, one that carries only
\* coordinates in its path
AtLink(vlat, vlng) == [OpaqueLink EXCEPT !.at = <<vlat, vlng>>]
PathLink(lat, lng) == [OpaqueLink EXCEPT !.path = <<lat, lng>>]

\* the links the operator may hand to fix_client_address: every shape, a
\* point on the equator, a repeated q parameter, short links to a place and
\* to a page without one
StoreLinks ==
    { OpaqueLink, PlaceLink(3, 4, 8, 9), AtLink(8, 9), GeoLink(5, 7), GeoLink(0, 7),
      RepeatedQLink(5, 7), PathLink(7, 8), LlLink(9, 9),
      ShortLink(PlaceLink(3, 4, 8, 9)), ShortLink(OpaqueLink) }

StoreCalls ==
    { c \in [op : {"verify", "fix", "add"}, id : UserIds, link : StoreLinks \cup GeocodeResults,
             head_ok : BOOLEAN, clean_address : CleanAddresses,
             called : {FALSE}, success : {FALSE}] :
        /\ ~c.link.short => c.head_ok
        /\ c.op = "fix" => c.link \in StoreLinks
        /\ c.op = "verify" => c.link = NoLink
        /\ c.op = "add" => c.link \in GeocodeResults /\ c.clean_address = "None" }

\* the cells of the state a call of the store leaves alone
StoreCallFrame ==
    /\ UNCHANGED <<SYNC_STATE, pc, loc, nreq, resp, nuser, ndetail, route, remote, ended>>
    /\ UNCHANGED <<opt, split, ext>>
    /\ UNCHANGED cacheVars

\* verify_client(bsale_id, clean_address); ok: the worksheet is reachable
\* and takes every write
CallVerify ==
    /\ store_call.op = "verify" /\ ~store_call.called
    /\ \E ok \in BOOLEAN :
          /\ sheet' = IF ok THEN verify_client(sheet, store_call.id, store_call.clean_address)
                      ELSE sheet
          /\ store_call' = [store_call EXCEPT
                               !.called = TRUE,
                               !.success = ok /\ find_client_row(sheet, store_call.id) # 0]
    /\ StoreCallFrame

\* fix_client_address(bsale_id, new_maps_link, clean_address)
CallFix ==
    /\ store_call.op = "fix" /\ ~store_call.called
    /\ \E ok \in BOOLEAN :
          /\ sheet' = IF ok THEN fix_address(sheet, store_call.id, store_call.link,
                                             store_call.head_ok, store_call.clean_address)
                      ELSE sheet
          /\ store_call' = [store_call EXCEPT
                               !.called = TRUE,
                               !.success = ok /\ find_client_row(sheet, store_call.id) # 0]
    /\ StoreCallFrame

\* add_clients([client]) with the link the geocoding loop gave the client
CallAdd ==
    /\ store_call.op = "add" /\ ~store_call.called
    /\ \E ok \in BOOLEAN :
          /\ sheet' = IF ok THEN add_clients(sheet, <<WithLink(Client(store_call.id, "933", "Jr Ica 5"),
                                                               store_call.link)>>)
                      ELSE sheet
          /\ store_call' = [store_call EXCEPT
                               !.called = TRUE,
                               !.success = ok /\ Str(store_call.id) \notin get_existing_bsale_ids(sheet)]
    /\ StoreCallFrame

LinksInit ==
    /\ Start({ <<StoredRow>>, <<VerifiedRow>> }, { <<Client(1, "911", "Av Lima 1")>> })
    /\ CacheStart({NoFile}, {"serving"}, {TRUE}, {0})
    /\ split = NoSplit
    /\ ext = NoExtract
    /\ store_call \in StoreCalls

LinksNext == CallVerify \/ CallFix \/ CallAdd

SpecLinks == LinksInit /\ [][LinksNext]_vars

\* the call of the store returns True in this step
FixSucceeds == store_call.op = "fix" /\ ~store_call.called /\ store_call'.success
VerifySucceeds == store_call.op = "verify" /\ ~store_call.called /\ store_call'.success

\* the row of the record the call names, before and after the call
RowBefore == sheet[find_client_row(sheet, store_call.id)]
RowAfter == sheet'[find_client_row(sheet, store_call.id)]

\* the lat / lng cells spell the pair, or are both empty when there is none
CellsSpell(row, coords) ==
    IF coords = NoCoords THEN row.lat = "" /\ row.lng = ""
    ELSE row.lat = Str(coords[1]) /\ row.lng = Str(coords[2])

\* C38: after fix_client_address succeeds the record is verified, its map
\* link is the expanded link supplied, and its lat / lng cells spell exactly
\* the coordinates extracted from the stored link, or are both empty when
\* none can be extracted; after verify_client succeeds the record is
\* verified and its map link, lat and lng are what they were.
C38_FixStoresLinkAndCoords ==
    [][ /\ FixSucceeds =>
              /\ RowAfter.verified = "yes"
              /\ RowAfter.maps_link = expand_short_url(store_call.link, store_call.head_ok)
              /\ CellsSpell(RowAfter, extract_coords_from_maps_link(RowAfter.maps_link))
        /\ VerifySucceeds =>
              /\ RowAfter.verified = "yes"
              /\ RowAfter.maps_link = RowBefore.maps_link
              /\ RowAfter.lat = RowBefore.lat
              /\ RowAfter.lng = RowBefore.lng ]_vars

\* the link stored carries no coordinate equal to zero
NoZeroCoordinate(link) ==
    LET coords == extract_coords_from_maps_link(link)
    IN  coords = NoCoords \/ (coords[1] # 0 /\ coords[2] # 0)

\* C38 for the links none of whose coordinates is zero: the statement holds
C38_FixStoresNonZeroCoords ==
    [][ /\ FixSucceeds /\ NoZeroCoordinate(RowAfter.maps_link) =>
              /\ RowAfter.verified = "yes"
              /\ RowAfter.maps_link = expand_short_url(store_call.link, store_call.head_ok)
              /\ CellsSpell(RowAfter, extract_coords_from_maps_link(RowAfter.maps_link))
        /\ VerifySucceeds =>
              /\ RowAfter.verified = "yes"
              /\ RowAfter.maps_link = RowBefore.maps_link
              /\ RowAfter.lat = RowBefore.lat
              /\ RowAfter.lng = RowBefore.lng ]_vars

\* add_clients or fix_client_address writes a record in this step
WriteSucceeds ==
    store_call.op \in {"fix", "add"} /\ ~store_call.called /\ store_call'.success

\* the row the call wrote: the record's row, or the row appended
RowWritten == IF store_call.op = "fix" THEN RowAfter ELSE sheet'[Len(sheet')]

\* the link the call stores
LinkStored == expand_short_url(store_call.link, store_call.head_ok)

\* C39: for every link on which extract_coords_from_maps_link returns
\* coordinates, extract_coords_from_url returns the same coordinates; so the
\* lat / lng cells of a record written by add_clients or fix_client_address
\* spell what stop resolution extracts from the record's map link; and the
\* link geocoding produces gives the geocoded pair through both extractors.
C39_ExtractorsAgree ==
    [][ LET stored == extract_coords_from_maps_link(LinkStored)
        IN  /\ stored # NoCoords =>
                  \A head_ok \in BOOLEAN : ExtractUrl(LinkStored, head_ok) = Returned(stored)
            /\ WriteSucceeds /\ stored # NoCoords =>
                  /\ RowWritten.maps_link = LinkStored
                  /\ CellsSpell(RowWritten, extract_coords_from_url(RowWritten.maps_link))
            /\ store_call.op = "add" /\ store_call.link # NoLink =>
                  /\ stored = store_call.link.q
                  /\ extract_coords_from_url(store_call.link) = store_call.link.q ]_vars

\* C39 for the links whose coordinates, if they have a q parameter that
\* carries them, have them in the first one: the extractors agree and the
\* geocoded link gives the geocoded pair through both
C39_ExtractorsAgreeOnFirstQ ==
    [][ LET stored == extract_coords_from_maps_link(LinkStored)
        IN  /\ stored # NoCoords /\ LinkStored.q_rep = NoCoords =>
                  \A head_ok \in BOOLEAN : ExtractUrl(LinkStored, head_ok) = Returned(stored)
            /\ store_call.op = "add" /\ store_call.link # NoLink =>
                  /\ stored = store_call.link.q
                  /\ extract_coords_from_url(store_call.link) = store_call.link.q ]_vars

\* C39 for the records whose link is one of those and carries no coordinate
\* equal to zero: the cells spell what stop resolution extracts
C39_StoredCellsAreResolved ==
    [][ LET stored == extract_coords_from_maps_link(LinkStored)
        IN  /\ WriteSucceeds /\ stored # NoCoords
            /\ LinkStored.q_rep = NoCoords /\ NoZeroCoordinate(LinkStored)
            => /\ RowWritten.maps_link = LinkStored
               /\ CellsSpell(RowWritten, extract_coords_from_url(RowWritten.maps_link)) ]_vars

====
